---- MODULE Spec2Model ----
(***************************************************************************)
(* Chapter-to-timeline reconciliation and overlap merging of the GoPro     *)
(* clip extractor (gui/metadata).                                          *)
(*                                                                         *)
(* Times are exact integers in milliseconds: Chapter.VideoTime is a        *)
(* time.Duration of whole milliseconds, ClockTime is a time of day in      *)
(* milliseconds, and the float64 seconds of the paddings, StartTime,       *)
(* EndTime and Duration are carried as the same quantity in milliseconds.  *)
(***************************************************************************)
EXTENDS Integers, Sequences, FiniteSets, TLC

\* ------------------------------------------------------------------ bounds

\* Longest chapter list handed to one operation (per list / per period file).
MaxChapters == 3

\* The most lines in a metadata file handed to the parser.
MaxLines == 3

\* The most chapters in an analysis result whose extraction is run.
MaxJobs == 2

\* Milliseconds per model tick.
Tick == 1000

\* Video offsets (START values, ms) drawn for chapters.
VideoTimes == {0, Tick, 2 * Tick, 3 * Tick}

\* Padding values (seconds before / after, carried in ms).
Paddings == {0, Tick}

\* Time-of-day anchors (ms) the device timecode of a period can give.
Anchors == {0, Tick}

\* Clock times (ms of day) drawn for chapters handed directly to the merger.
ClockTimes == {0, Tick, 2 * Tick}

\* GlobalOrder values drawn for chapters handed directly to the detector
\* (fewer values than chapters, so equal values occur).
GlobalOrders == {1, 2}

\* Period names as the Step 1 handler builds them ("%dPeriod").
PeriodNames == {"1Period", "2Period"}

\* ------------------------------------------------------------------ state

VARIABLES
    pc,               \* position in the flow being checked
    metadataFiles,    \* period name -> START values (ms) of its metadata file, in file order
    timecodes,        \* period name -> time-of-day anchor (ms) of its timecode
    periodChapters,   \* the map handed to MergeAndSortChapters
    analysisResult,   \* AnalysisResult.Chapters
    selectedChapters, \* GlobalOrder values ticked in Step 2
    toExtract,        \* chapter list handed to DetectOverlappingChapters
    secBefore,        \* beforePadding
    secAfter,         \* afterPadding
    clipGroups,       \* result of DetectOverlappingChapters
    rerunInput,       \* chapter list of a second run
    rerunGroups,      \* result of the second run
    workers,          \* the extraction workers started so far, one per click
    extractedClips,   \* a.extractedClips
    stepComplete,     \* the Step 2 tab is marked complete
    videoFiles,       \* period name -> the analysis result has a video file for it
    cancelFlag,       \* FFmpeg.cancelFlag
    currentCmd,       \* FFmpeg.currentCmd: 0 for nil, else the position of the command in encoders
    encoders,         \* the encoder commands created by the running combine or export
    exportOp,         \* the running combine or export: its kind, options, position and result
    folder,           \* base names of the MOV files of the working folder
    scans,            \* the folder scans started so far, one goroutine each
    detectedPeriods,  \* detectedPeriods of Step 1, as the base names of the MOV files
    analyzeBtn,       \* the Analyze button is enabled
    appPeriods,       \* a.periods, as the base names of the video files
    now,              \* the local date of the wall clock, as a day number
    args,             \* arguments of the function a specification applies
    ret               \* what that function returned

vars == <<pc, metadataFiles, timecodes, periodChapters, analysisResult,
          selectedChapters, toExtract, secBefore, secAfter, clipGroups,
          rerunInput, rerunGroups, workers, extractedClips,
          stepComplete, videoFiles, cancelFlag, currentCmd, encoders, exportOp,
          folder, scans, detectedPeriods, analyzeBtn, appPeriods, now, args, ret>>

\* The state of the Step 1 / Step 2 flow and of the detector runs.
flowVars == <<metadataFiles, timecodes, periodChapters, analysisResult,
              selectedChapters, toExtract, secBefore, secAfter, clipGroups,
              rerunInput, rerunGroups>>

\* No combine or export has been started.
NoOperation == [kind |-> "", forceCPU |-> FALSE, pc |-> "idle", result |-> "",
                cancelled |-> FALSE]

\* The state of the Step 2 extraction workers.
jobVars == <<workers, extractedClips, stepComplete, videoFiles>>

\* The state of a re-encoding combine or a full-game export.
exportVars == <<cancelFlag, currentCmd, encoders, exportOp>>

\* The state of the Step 1 folder scans.
scanVars == <<folder, scans, detectedPeriods, analyzeBtn, appPeriods>>

\* What a combine or an export leaves alone.
otherThanExport == <<pc, now, args, ret, flowVars, jobVars, scanVars>>

\* What a folder scan leaves alone.
otherThanScan == <<pc, now, args, ret, flowVars, jobVars, exportVars>>

\* What a call of a function leaves alone.
otherThanCall == <<now, flowVars, jobVars, exportVars, scanVars>>

\* ------------------------------------------------------------------ helpers

\* The sequences over S of length at most n.
SeqsUpTo(S, n) == UNION {[1..k -> S] : k \in 0..n}

\* The elements of a sequence, with multiplicity, as a bag (element -> count).
RECURSIVE CountIn(_, _)
CountIn(s, x) ==
    IF s = <<>> THEN 0
    ELSE (IF Head(s) = x THEN 1 ELSE 0) + CountIn(Tail(s), x)

Range(s) == {s[i] : i \in 1..Len(s)}

SameBag(s, t) ==
    /\ Len(s) = Len(t)
    /\ \A x \in Range(s) \cup Range(t) : CountIn(s, x) = CountIn(t, x)

\* All orders a sort.Slice call may leave the slice s in, for the comparison
\* less (less[i][j] is the comparator on s[i], s[j]): sort.Slice is not stable,
\* so every arrangement with no element placed after one it is less than.
RECURSIVE SortedOrders(_, _, _)
SortedOrders(s, idx, less) ==
    IF idx = {} THEN {<<>>}
    ELSE UNION { { <<s[i]>> \o r : r \in SortedOrders(s, idx \ {i}, less) } :
                 i \in {j \in idx : \A k \in idx \ {j} : ~less[k][j]} }

SortSlice(s, less) == SortedOrders(s, 1..Len(s), less)

\* The sequences that list every element of the set K once.
RECURSIVE Arrangements(_)
Arrangements(K) ==
    IF K = {} THEN {<<>>}
    ELSE UNION { { <<k>> \o r : r \in Arrangements(K \ {k}) } : k \in K }

\* All orders in which a range over a Go map may visit the key set K.
MapOrders(K) == Arrangements(K)

\* The reorderings of a sequence.
Reorderings(s) == { [i \in 1..Len(s) |-> s[o[i]]] : o \in Arrangements(1..Len(s)) }

\* ------------------------------------------------------------------ metadata: chapters

\* A Chapter value (part_001 lines 15-22).
Chapter(number, startMs, videoTime, clockTime, globalOrder, period) ==
    [Number |-> number, StartMs |-> startMs, VideoTime |-> videoTime,
     ClockTime |-> clockTime, GlobalOrder |-> globalOrder, Period |-> period]

ParseFFMetadataReversed(starts) ==
    [i \in 1..Len(starts) |->
        Chapter(i, starts[Len(starts) + 1 - i], starts[Len(starts) + 1 - i], 0, 0, "")]

\* ParseFFMetadata on a file whose START lines carry the values starts, in
\* file order: one chapter per line, numbered by encounter, no period, no
\* clock time, no global order yet.
ParseFFMetadata(starts) ==
    [i \in 1..Len(starts) |-> Chapter(i, starts[i], starts[i], 0, 0, "")]

\* MapChaptersToClockTime for a timecode that parsed to the anchor startTime.
MapChaptersToClockTime(chapters, startTime) ==
    [i \in 1..Len(chapters) |->
        [chapters[i] EXCEPT !.ClockTime = startTime + chapters[i].VideoTime]]

LessClockTimeReversed(a, b) == a.ClockTime > b.ClockTime

\* The comparator of the sort in MergeAndSortChapters (Time.Before).
LessClockTime(a, b) == a.ClockTime < b.ClockTime

\* The first loop of MergeAndSortChapters: the chapters of the periods
\* visited in the order given, each stamped with its period name.
RECURSIVE CollectChapters(_, _)
CollectChapters(pcs, order) ==
    IF order = <<>> THEN <<>>
    ELSE [i \in 1..Len(pcs[Head(order)]) |->
              [pcs[Head(order)][i] EXCEPT !.Period = Head(order)]]
         \o CollectChapters(pcs, Tail(order))

\* The last loop of MergeAndSortChapters: GlobalOrder = index + 1 (the
\* sequences here are indexed from 1).
AssignGlobalOrder(sorted) ==
    [i \in 1..Len(sorted) |-> [sorted[i] EXCEPT !.GlobalOrder = i]]

\* MergeAndSortChapters: every result the call can return for the map pcs
\* (the map is ranged over in any order, the sort is not stable).
MergeAndSortChapters(pcs) ==
    UNION { { AssignGlobalOrder(sorted) :
                sorted \in SortSlice(CollectChapters(pcs, order),
                    [i \in 1..Len(CollectChapters(pcs, order)) |->
                       [j \in 1..Len(CollectChapters(pcs, order)) |->
                          LessClockTime(CollectChapters(pcs, order)[i],
                                        CollectChapters(pcs, order)[j])]]) } :
            order \in MapOrders(DOMAIN pcs) }

\* ------------------------------------------------------------------ metadata: timecode

\* A string is the sequence of its characters.
Digits == <<"0", "1", "2", "3", "4", "5", "6", "7", "8", "9">>

IsDigit(c) == \E n \in 1..10 : Digits[n] = c

DigitValue(c) == (CHOOSE n \in 1..10 : Digits[n] = c) - 1

\* strconv.Atoi / strconv.ParseInt on a string of decimal digits.
RECURSIVE Atoi(_)
Atoi(s) ==
    IF s = <<>> THEN 0
    ELSE 10 * Atoi(SubSeq(s, 1, Len(s) - 1)) + DigitValue(s[Len(s)])

MatchAtAnySeparator(s, i) ==
    /\ i + 10 <= Len(s)
    /\ \A k \in {0, 1, 3, 4, 6, 7, 9, 10} : IsDigit(s[i + k])

\* The timecode pattern (\d{2}):(\d{2}):(\d{2})[:;](\d{2}) matches the
\* eleven characters of s that start at position i.
MatchAt(s, i) ==
    /\ i + 10 <= Len(s)
    /\ \A k \in {0, 1, 3, 4, 6, 7, 9, 10} : IsDigit(s[i + k])
    /\ s[i + 2] = ":"
    /\ s[i + 5] = ":"
    /\ s[i + 8] \in {":", ";"}

\* regexp.FindStringSubmatch: the leftmost match anywhere in the string, as
\* <<whole match, group 1, .., group 4>> (Go's matches[k] is element k + 1),
\* or the empty sequence for nil.
FindStringSubmatch(s) ==
    LET at == {i \in 1..Len(s) : MatchAt(s, i)}
    IN  IF at = {} THEN <<>>
        ELSE LET i == CHOOSE j \in at : \A k \in at : j <= k
             IN  << SubSeq(s, i, i + 10), SubSeq(s, i, i + 1),
                    SubSeq(s, i + 3, i + 4), SubSeq(s, i + 6, i + 7),
                    SubSeq(s, i + 9, i + 10) >>

\* The nominal frame rate.
fps == 60

FramesToMsAt30(frames) == (frames * 1000) \div 30

\* int(float64(frames) / fps * 1000): the float expression truncates to the
\* same integer as floor(frames * 1000 / 60) for every two-digit frame count.
FramesToMs(frames) == (frames * 1000) \div fps

\* One day, in milliseconds.
DayMs == 24 * 60 * 60 * Tick

\* A time.Time, as the milliseconds since local midnight of day 0; the zero
\* Time is a value of its own.
ZeroTime == [IsZero |-> TRUE, Ms |-> 0]

DateClamped(day, hours, minutes, seconds, milliseconds) ==
    [IsZero |-> FALSE,
     Ms |-> day * DayMs + ((hours * 60 + minutes) * 60 + seconds) * Tick
               + (IF milliseconds > 999 THEN 999 ELSE milliseconds)]

\* time.Date(year, month, day, hours, minutes, seconds, milliseconds*1e6,
\* time.Local): values outside their usual ranges are normalised, i.e. added.
Date(day, hours, minutes, seconds, milliseconds) ==
    [IsZero |-> FALSE,
     Ms |-> day * DayMs + ((hours * 60 + minutes) * 60 + seconds) * Tick
               + milliseconds]

\* ParseTimecodeToTime, called while the local date is today: <<time, err>>
\* as a record.
ParseTimecodeToTime(timecode, today) ==
    LET matches == FindStringSubmatch(timecode)
    IN  IF matches = <<>> THEN [time |-> ZeroTime, err |-> TRUE]
        ELSE [time |-> Date(today, Atoi(matches[2]), Atoi(matches[3]),
                            Atoi(matches[4]), FramesToMs(Atoi(matches[5]))),
              err |-> FALSE]

\* TimecodeToSeconds: <<seconds, err>>; the float64 seconds are kept exactly,
\* as a count of sixtieths of a second.
TimecodeToSeconds(timecode) ==
    LET matches == FindStringSubmatch(timecode)
    IN  IF matches = <<>> THEN [sixtieths |-> 0, err |-> TRUE]
        ELSE [sixtieths |->
                  (Atoi(matches[2]) * 3600 + Atoi(matches[3]) * 60
                     + Atoi(matches[4])) * fps + Atoi(matches[5]),
              err |-> FALSE]

\* MapChaptersToClockTime on a timecode string, called while the local date
\* is today: <<chapters, err>>, with isNil telling a nil slice from an empty one.
MapChaptersToClockTimeOf(chapters, goProTimecode, today) ==
    LET parsed == ParseTimecodeToTime(goProTimecode, today)
    IN  IF parsed.err THEN [chapters |-> <<>>, isNil |-> TRUE, err |-> TRUE]
        ELSE [chapters |-> MapChaptersToClockTime(chapters, parsed.time.Ms),
              isNil |-> FALSE, err |-> FALSE]

\* ------------------------------------------------------------------ metadata: file and JSON

WhiteSpace == {" ", "\t"}

NoTrim(s) == s

\* strings.TrimSpace: white space removed from both ends.
RECURSIVE TrimSpace(_)
TrimSpace(s) ==
    IF s = <<>> THEN s
    ELSE IF s[1] \in WhiteSpace THEN TrimSpace(Tail(s))
    ELSE IF s[Len(s)] \in WhiteSpace THEN TrimSpace(SubSeq(s, 1, Len(s) - 1))
    ELSE s

\* The longest run of digits of s that starts at position i.
RECURSIVE DigitRun(_, _)
DigitRun(s, i) ==
    IF i <= Len(s) /\ IsDigit(s[i]) THEN <<s[i]>> \o DigitRun(s, i + 1)
    ELSE <<>>

\* startRe.FindStringSubmatch for ^START=(\d+): <<whole match, group 1>>, or
\* the empty sequence for nil.
FindStartSubmatch(line) ==
    IF /\ Len(line) >= 7
       /\ SubSeq(line, 1, 6) = <<"S", "T", "A", "R", "T", "=">>
       /\ IsDigit(line[7])
    THEN <<SubSeq(line, 1, 6) \o DigitRun(line, 7), DigitRun(line, 7)>>
    ELSE <<>>

\* The loop of ParseFFMetadata over the lines of the file: the START values
\* of the matching lines, in file order.
RECURSIVE StartValues(_)
StartValues(lines) ==
    IF lines = <<>> THEN <<>>
    ELSE LET line == TrimSpace(Head(lines))
             matches == FindStartSubmatch(line)
         IN  IF matches # <<>>
             THEN <<Atoi(matches[2])>> \o StartValues(Tail(lines))
             ELSE StartValues(Tail(lines))

\* ParseFFMetadata on a file, given as its lines.
ParseFFMetadataFile(lines) == ParseFFMetadata(StartValues(lines))

\* FormatVideoTime: the text MM:SS, given as the two numbers it shows.
FormatVideoTime(d) ==
    [minutes |-> d \div (60 * Tick), seconds |-> (d \div Tick) % 60]

\* Chapter.MarshalJSON: the time of day of ClockTime is written, not its date.
MarshalJSON(c) ==
    [number |-> c.Number, start_ms |-> c.StartMs,
     video_time |-> FormatVideoTime(c.VideoTime),
     clock_time |-> c.ClockTime % DayMs,
     global_order |-> c.GlobalOrder, period |-> c.Period]

\* Chapter.UnmarshalJSON: VideoTime from the minutes and seconds of the
\* text; ClockTime from the time of day, on 1 January of year 0, a date
\* before every date of the wall clock (day -1 stands for it).
UnmarshalJSON(cj) ==
    Chapter(cj.number, cj.start_ms,
            cj.video_time.minutes * 60 * Tick + cj.video_time.seconds * Tick,
            cj.clock_time - DayMs, cj.global_order, cj.period)

\* SaveToJSON followed by LoadFromJSON, on the chapters of the result.
SaveAndLoad(chapters) ==
    [i \in 1..Len(chapters) |-> UnmarshalJSON(MarshalJSON(chapters[i]))]

\* ------------------------------------------------------------------ metadata: overlap

\* maxFloat.
maxFloat(a, b) == IF a > b THEN a ELSE b

FinalizeGroupNoDuration(group) == group

\* finalizeGroup: Duration = EndTime - StartTime (OverlapInfo is display text
\* derived from the same fields and is not carried).
finalizeGroup(group) ==
    [group EXCEPT !.Duration = group.EndTime - group.StartTime]

\* The ClipGroup literal that seeds a group with one chapter
\* (buildOverlapGroups, first group and the else branch of the sweep).
NewGroup(ch, beforePadding, afterPadding, period) ==
    [Chapters |-> <<ch>>,
     StartTime |-> maxFloat(0, ch.VideoTime - beforePadding),
     EndTime |-> ch.VideoTime + afterPadding,
     Duration |-> 0,
     Period |-> period,
     PrimaryChapter |-> ch,
     IsOverlap |-> FALSE]

OverlapsInclusive(chStartTime, currentEnd) == chStartTime <= currentEnd

OverlapsNever(chStartTime, currentEnd) == FALSE

\* The overlap test of the sweep: strict.
Overlaps(chStartTime, currentEnd) == chStartTime < currentEnd

MergeChapterDropped(group, ch, afterPadding) ==
    [group EXCEPT !.EndTime = ch.VideoTime + afterPadding,
                  !.IsOverlap = TRUE]

MergeChapterMovesStart(group, ch, afterPadding) ==
    [group EXCEPT !.Chapters = Append(group.Chapters, ch),
                  !.StartTime = ch.VideoTime,
                  !.EndTime = ch.VideoTime + afterPadding,
                  !.IsOverlap = TRUE]

\* The merge branch of the sweep.
MergeChapter(group, ch, afterPadding) ==
    [group EXCEPT !.Chapters = Append(group.Chapters, ch),
                  !.EndTime = ch.VideoTime + afterPadding,
                  !.IsOverlap = TRUE]

\* The loop of buildOverlapGroups from index i on, with the current group and
\* the groups finalized so far; ends with the last group finalized.
RECURSIVE Sweep(_, _, _, _, _, _, _)
Sweep(sortedChapters, i, currentGroup, groups, beforePadding, afterPadding, period) ==
    IF i > Len(sortedChapters)
    THEN Append(groups, finalizeGroup(currentGroup))
    ELSE IF Overlaps(maxFloat(0, sortedChapters[i].VideoTime - beforePadding),
                     currentGroup.EndTime)
         THEN Sweep(sortedChapters, i + 1,
                    MergeChapter(currentGroup, sortedChapters[i], afterPadding),
                    groups, beforePadding, afterPadding, period)
         ELSE Sweep(sortedChapters, i + 1,
                    NewGroup(sortedChapters[i], beforePadding, afterPadding, period),
                    Append(groups, finalizeGroup(currentGroup)),
                    beforePadding, afterPadding, period)

\* buildOverlapGroups.
buildOverlapGroups(sortedChapters, beforePadding, afterPadding, period) ==
    IF Len(sortedChapters) = 0 THEN <<>>
    ELSE Sweep(sortedChapters, 2,
               NewGroup(sortedChapters[1], beforePadding, afterPadding, period),
               <<>>, beforePadding, afterPadding, period)

PeriodKeyShared(ch) == ""

\* The map key a chapter is filed under in DetectOverlappingChapters.
PeriodKey(ch) == ch.Period

\* The chapters of the list filed under key, in list order (the appends of
\* the first loop of DetectOverlappingChapters).
ChaptersOfPeriod(chapters, key) ==
    LET IsOfPeriod(ch) == PeriodKey(ch) = key
    IN  SelectSeq(chapters, IsOfPeriod)

LessVideoTimeReversed(a, b) == a.VideoTime > b.VideoTime

\* The comparator of the per-period sort.
LessVideoTime(a, b) == a.VideoTime < b.VideoTime

LessGlobalOrderReversed(g1, g2) ==
    g1.PrimaryChapter.GlobalOrder > g2.PrimaryChapter.GlobalOrder

\* The comparator of the final sort of the groups.
LessGlobalOrder(g1, g2) ==
    g1.PrimaryChapter.GlobalOrder < g2.PrimaryChapter.GlobalOrder

\* The groups of one period: every result of sorting its chapters by video
\* time and sweeping them.
PeriodGroups(pChapters, beforePadding, afterPadding, period) ==
    { buildOverlapGroups(sorted, beforePadding, afterPadding, period) :
        sorted \in SortSlice(pChapters,
            [i \in 1..Len(pChapters) |->
               [j \in 1..Len(pChapters) |-> LessVideoTime(pChapters[i], pChapters[j])]]) }

\* allGroups after the loop over the map, the periods visited in the order given.
RECURSIVE AppendPeriodGroups(_, _, _, _)
AppendPeriodGroups(chapters, order, beforePadding, afterPadding) ==
    IF order = <<>> THEN {<<>>}
    ELSE { g \o rest :
             g \in PeriodGroups(ChaptersOfPeriod(chapters, Head(order)),
                                beforePadding, afterPadding, Head(order)),
             rest \in AppendPeriodGroups(chapters, Tail(order),
                                         beforePadding, afterPadding) }

\* DetectOverlappingChapters: every result the call can return.
DetectOverlappingChapters(chapters, beforePadding, afterPadding) ==
    IF Len(chapters) = 0 THEN {<<>>}
    ELSE UNION { UNION { SortSlice(allGroups,
                            [i \in 1..Len(allGroups) |->
                               [j \in 1..Len(allGroups) |->
                                  LessGlobalOrder(allGroups[i], allGroups[j])]]) :
                         allGroups \in AppendPeriodGroups(chapters, order,
                                           beforePadding, afterPadding) } :
                 order \in MapOrders({PeriodKey(chapters[i]) : i \in 1..Len(chapters)}) }

\* The video times tried for the chapter export: whole seconds and 2.611 s.
ClipVideoTimes == VideoTimes \cup {2611}

\* The pairs <<VideoTime, StartTime>>, in ms, among the values tried for
\* which the float64 product (VideoTime.Seconds() - StartTime) * 1000 falls
\* just below the whole number of milliseconds: 2.611 * 1000 is
\* 2610.9999999999995, 1.611 * 1000 is 1610.9999999999998 and
\* 0.6109999999999998 * 1000 is 610.9999999999998. For every other pair of
\* the values tried the product is the whole number itself.
RoundsBelow == {2611} \X {0, Tick, 2 * Tick}

\* int64(offsetSec * 1000) for offsetSec = VideoTime.Seconds() - StartTime.
TruncatedMs(videoTime, startTime) ==
    IF <<videoTime, startTime>> \in RoundsBelow
    THEN videoTime - startTime - 1
    ELSE videoTime - startTime

\* GetClipChapters: one marker per member, in member order; the title is
\* "Highlight i (ChNN)" in a merged group and "ChNN" otherwise, given as the
\* numbers it shows (highlight 0: none).
GetClipChapters(g) ==
    [i \in 1..Len(g.Chapters) |->
        [OffsetMs |-> IF g.Chapters[i].VideoTime - g.StartTime < 0 THEN 0
                      ELSE TruncatedMs(g.Chapters[i].VideoTime, g.StartTime),
         Title |-> [highlight |-> IF g.IsOverlap THEN i ELSE 0,
                    ch |-> g.Chapters[i].Number]]]

\* ------------------------------------------------------------------ analysis and Step 2

\* The loop of AnalyzePeriods over the periods in list order, for periods
\* whose metadata and timecode read without error: the map of period name to
\* mapped chapters; a period without chapters adds no key.
RECURSIVE BuildPeriodChapters(_, _, _)
BuildPeriodChapters(periods, files, anchors) ==
    IF periods = <<>> THEN <<>>
    ELSE LET name == Head(periods)
             rest == BuildPeriodChapters(Tail(periods), files, anchors)
         IN  IF Len(ParseFFMetadata(files[name])) = 0
             THEN rest
             ELSE [k \in (DOMAIN rest) \cup {name} |->
                     IF k = name
                     THEN MapChaptersToClockTime(ParseFFMetadata(files[name]), anchors[name])
                     ELSE rest[k]]

\* No error.
NoError == [stage |-> "", period |-> ""]

ReturnErrorWithPartial(stage, name, byPeriod, calls) ==
    { [chapters |-> merged, isNil |-> FALSE,
       err |-> [stage |-> stage, period |-> name], calls |-> calls] :
         merged \in MergeAndSortChapters(byPeriod) }

\* return nil, fmt.Errorf("failed to ... for %s: %w", period.Name, err): no
\* result, and an error that carries the failed step and the period's name.
ReturnError(stage, name, byPeriod, calls) ==
    { [chapters |-> <<>>, isNil |-> TRUE,
       err |-> [stage |-> stage, period |-> name], calls |-> calls] }

\* The loop of AnalyzePeriods over periods whose reads may fail. A period is
\* [Name, metaErr, starts, tcErr, timecode]: whether reading its metadata
\* fails and the START values read otherwise, whether reading its timecode
\* fails and the timecode read otherwise. calls lists the reads and mappings
\* made so far, as <<step, period name>>. The outcomes are
\* [chapters, isNil, err, calls].
RECURSIVE AnalyzeLoop(_, _, _, _)
AnalyzeLoop(periods, byPeriod, calls, today) ==
    IF periods = <<>>
    THEN { [chapters |-> merged, isNil |-> FALSE, err |-> NoError, calls |-> calls] :
             merged \in MergeAndSortChapters(byPeriod) }
    ELSE LET period == Head(periods)
             chapters == ParseFFMetadata(period.starts)
             afterParse == Append(calls, <<"metadata", period.Name>>)
             afterTimecode == Append(afterParse, <<"timecode", period.Name>>)
             afterMap == Append(afterTimecode, <<"map", period.Name>>)
             mapped == MapChaptersToClockTimeOf(chapters, period.timecode, today)
         IN  IF period.metaErr
             THEN ReturnError("metadata", period.Name, byPeriod, afterParse)
             ELSE IF Len(chapters) = 0
             THEN AnalyzeLoop(Tail(periods), byPeriod, afterParse, today)
             ELSE IF period.tcErr
             THEN ReturnError("timecode", period.Name, byPeriod, afterTimecode)
             ELSE IF mapped.err
             THEN ReturnError("map", period.Name, byPeriod, afterMap)
             ELSE AnalyzeLoop(Tail(periods),
                     [k \in (DOMAIN byPeriod) \cup {period.Name} |->
                         IF k = period.Name THEN mapped.chapters
                         ELSE byPeriod[k]],
                     afterMap, today)

\* AnalyzePeriods, called while the local date is today.
AnalyzePeriods(periods, today) == AnalyzeLoop(periods, <<>>, <<>>, today)

\* The period list the Analyze handler builds from the detected periods.
Periods == <<"1Period", "2Period">>

\* The chapters Step 2 hands to the detector: those of the analysis result
\* whose GlobalOrder is ticked, in result order.
SelectedOf(chapters, selected) ==
    LET IsTicked(ch) == ch.GlobalOrder \in selected
    IN  SelectSeq(chapters, IsTicked)

TotalStarts(files) == Len(files["1Period"]) + Len(files["2Period"])

Init ==
    /\ pc = "setup"
    /\ metadataFiles \in [PeriodNames -> SeqsUpTo(VideoTimes, MaxChapters)]
    /\ TotalStarts(metadataFiles) <= MaxChapters
    /\ timecodes \in [PeriodNames -> Anchors]
    /\ periodChapters = <<>>
    /\ analysisResult = <<>>
    /\ selectedChapters = {}
    /\ toExtract = <<>>
    /\ secBefore = 0
    /\ secAfter = 0
    /\ clipGroups = <<>>
    /\ rerunInput = <<>>
    /\ rerunGroups = <<>>
    /\ now = 0
    /\ workers = <<>>
    /\ extractedClips = <<>>
    /\ stepComplete = FALSE
    /\ cancelFlag = FALSE
    /\ currentCmd = 0
    /\ encoders = <<>>
    /\ exportOp = NoOperation
    /\ folder = {}
    /\ scans = <<>>
    /\ detectedPeriods = <<>>
    /\ analyzeBtn = FALSE
    /\ appPeriods = <<>>
    /\ videoFiles = [p \in PeriodNames |-> TRUE]
    /\ args = <<>>
    /\ ret = <<>>

\* Analyze & Continue: AnalyzePeriods, then Step 2 lists the chapters with
\* every one ticked.
Analyze ==
    /\ pc = "setup"
    /\ periodChapters' = BuildPeriodChapters(Periods, metadataFiles, timecodes)
    /\ analysisResult' \in MergeAndSortChapters(periodChapters')
    /\ selectedChapters' = {analysisResult'[i].GlobalOrder : i \in 1..Len(analysisResult')}
    /\ pc' = "analyzed"
    /\ UNCHANGED <<exportVars, scanVars>>
    /\ UNCHANGED <<workers, extractedClips, stepComplete, videoFiles, now, args, ret, metadataFiles, timecodes, toExtract, secBefore, secAfter,
                   clipGroups, rerunInput, rerunGroups>>

\* A chapter checkbox of Step 2 is ticked or cleared.
ToggleChapter ==
    /\ pc = "analyzed"
    /\ \E i \in 1..Len(analysisResult) :
         LET g == analysisResult[i].GlobalOrder
         IN  selectedChapters' = IF g \in selectedChapters
                                 THEN selectedChapters \ {g}
                                 ELSE selectedChapters \cup {g}
    /\ UNCHANGED <<exportVars, scanVars>>
    /\ UNCHANGED <<workers, extractedClips, stepComplete, videoFiles, now, args, ret, pc, metadataFiles, timecodes, periodChapters, analysisResult,
                   toExtract, secBefore, secAfter, clipGroups, rerunInput, rerunGroups>>

\* An extraction worker as the extract handler starts it: its groups, the
\* index of the next group, where it stands, its count of completed clips,
\* the groups it has visited, the paths it has appended, and whether it has
\* marked the step complete.
NewWorker(groups) ==
    [groups |-> groups, i |-> 1, pc |-> "next", completedClips |-> 0,
     attempted |-> <<>>, succeeded |-> <<>>, marked |-> FALSE]

\* Extract Selected Clips: the paddings are read, the ticked chapters
\* collected and grouped, a.extractedClips is emptied and the extraction
\* worker is started.
ExtractSelected ==
    /\ pc = "analyzed"
    /\ Len(analysisResult) > 0
    /\ Len(SelectedOf(analysisResult, selectedChapters)) > 0
    /\ \E b \in Paddings, a \in Paddings :
         /\ secBefore' = b
         /\ secAfter' = a
         /\ toExtract' = SelectedOf(analysisResult, selectedChapters)
         /\ clipGroups' \in DetectOverlappingChapters(toExtract', b, a)
    /\ extractedClips' = <<>>
    /\ workers' = Append(workers, NewWorker(clipGroups'))
    /\ pc' = "detected"
    /\ UNCHANGED <<exportVars, scanVars>>
    /\ UNCHANGED <<stepComplete, videoFiles, now, args, ret, metadataFiles, timecodes,
                   periodChapters, analysisResult, selectedChapters, rerunInput,
                   rerunGroups>>

Next == Analyze \/ ToggleChapter \/ ExtractSelected

Spec == Init /\ [][Next]_vars

\* ------------------------------------------------------------------ the merger on any map

\* Chapters as a caller may hand them to the merger: numbered by position
\* in their period, any video and clock time, given as <<video, clock>> pairs.
ChapterList(l) ==
    [i \in 1..Len(l) |-> Chapter(i, l[i][1], l[i][1], l[i][2], 0, "")]

InitMerge ==
    /\ pc = "merge"
    /\ \E l \in SeqsUpTo(VideoTimes \X ClockTimes, MaxChapters) :
         \E k \in 0..Len(l) :
            periodChapters =
                [p \in PeriodNames |->
                    IF p = "1Period" THEN ChapterList(SubSeq(l, 1, k))
                    ELSE ChapterList(SubSeq(l, k + 1, Len(l)))]
    /\ metadataFiles = <<>>
    /\ timecodes = <<>>
    /\ analysisResult = <<>>
    /\ selectedChapters = {}
    /\ toExtract = <<>>
    /\ secBefore = 0
    /\ secAfter = 0
    /\ clipGroups = <<>>
    /\ rerunInput = <<>>
    /\ rerunGroups = <<>>
    /\ now = 0
    /\ workers = <<>>
    /\ extractedClips = <<>>
    /\ stepComplete = FALSE
    /\ cancelFlag = FALSE
    /\ currentCmd = 0
    /\ encoders = <<>>
    /\ exportOp = NoOperation
    /\ folder = {}
    /\ scans = <<>>
    /\ detectedPeriods = <<>>
    /\ analyzeBtn = FALSE
    /\ appPeriods = <<>>
    /\ videoFiles = [p \in PeriodNames |-> TRUE]
    /\ args = <<>>
    /\ ret = <<>>

Merge ==
    /\ pc = "merge"
    /\ analysisResult' \in MergeAndSortChapters(periodChapters)
    /\ pc' = "merged"
    /\ UNCHANGED <<exportVars, scanVars>>
    /\ UNCHANGED <<workers, extractedClips, stepComplete, videoFiles, now, args, ret, metadataFiles, timecodes, periodChapters, selectedChapters,
                   toExtract, secBefore, secAfter, clipGroups, rerunInput, rerunGroups>>

NextMerge == Merge

SpecMerge == InitMerge /\ [][NextMerge]_vars



\* A second run of the merger on the same map: the map is ranged again.
MergeAgain ==
    /\ pc = "merged"
    /\ ret' \in MergeAndSortChapters(periodChapters)
    /\ pc' = "remerged"
    /\ UNCHANGED <<now, args>>
    /\ UNCHANGED jobVars
    /\ UNCHANGED <<exportVars, scanVars>>
    /\ UNCHANGED flowVars

NextMergeRerun == Merge \/ MergeAgain

SpecMergeRerun == InitMerge /\ [][NextMergeRerun]_vars

\* ------------------------------------------------------------------ the detector on any list

\* Chapter lists as a caller may hand them to the detector: distinct
\* chapters (numbered by position), any period, video time and global order.
DetectInputs ==
    { [i \in 1..Len(l) |-> Chapter(i, l[i][1], l[i][1], l[i][1], l[i][2], l[i][3])] :
        l \in SeqsUpTo(VideoTimes \X GlobalOrders \X PeriodNames, MaxChapters) }

\* Scenario A of the spec (chapters at 10 s, 70 s, 75 s) and Scenario B (a
\* chapter at 3 s), both with 8 s before and 2 s after.
ScenarioA ==
    << Chapter(1, 10 * Tick, 10 * Tick, 10 * Tick, 1, "1Period"),
       Chapter(2, 70 * Tick, 70 * Tick, 70 * Tick, 2, "1Period"),
       Chapter(3, 75 * Tick, 75 * Tick, 75 * Tick, 3, "1Period") >>

ScenarioB == << Chapter(1, 3 * Tick, 3 * Tick, 3 * Tick, 1, "1Period") >>

InitDetect ==
    /\ pc = "detect"
    /\ \/ /\ toExtract \in DetectInputs
          /\ secBefore \in Paddings
          /\ secAfter \in Paddings
       \/ /\ toExtract \in {ScenarioA, ScenarioB}
          /\ secBefore = 8 * Tick
          /\ secAfter = 2 * Tick
    /\ metadataFiles = <<>>
    /\ timecodes = <<>>
    /\ periodChapters = <<>>
    /\ analysisResult = <<>>
    /\ selectedChapters = {}
    /\ clipGroups = <<>>
    /\ rerunInput = <<>>
    /\ rerunGroups = <<>>
    /\ now = 0
    /\ workers = <<>>
    /\ extractedClips = <<>>
    /\ stepComplete = FALSE
    /\ cancelFlag = FALSE
    /\ currentCmd = 0
    /\ encoders = <<>>
    /\ exportOp = NoOperation
    /\ folder = {}
    /\ scans = <<>>
    /\ detectedPeriods = <<>>
    /\ analyzeBtn = FALSE
    /\ appPeriods = <<>>
    /\ videoFiles = [p \in PeriodNames |-> TRUE]
    /\ args = <<>>
    /\ ret = <<>>

Detect ==
    /\ pc = "detect"
    /\ clipGroups' \in DetectOverlappingChapters(toExtract, secBefore, secAfter)
    /\ pc' = "detected"
    /\ UNCHANGED <<exportVars, scanVars>>
    /\ UNCHANGED <<workers, extractedClips, stepComplete, videoFiles, now, args, ret, metadataFiles, timecodes, periodChapters, analysisResult,
                   selectedChapters, toExtract, secBefore, secAfter,
                   rerunInput, rerunGroups>>

NextDetect == Detect

SpecDetect == InitDetect /\ [][NextDetect]_vars

\* The member chapters of a list of groups, group after group.
RECURSIVE Members(_)
Members(groups) ==
    IF groups = <<>> THEN <<>>
    ELSE Head(groups).Chapters \o Members(Tail(groups))

\* A second call of the detector with the same paddings, on the same
\* chapters: the same list, the list in another order, or the member
\* chapters of the first result.
Rerun ==
    /\ pc = "detected"
    /\ \E input \in Reorderings(toExtract) \cup {Members(clipGroups)} :
         /\ rerunInput' = input
         /\ rerunGroups' \in DetectOverlappingChapters(input, secBefore, secAfter)
    /\ pc' = "rerun"
    /\ UNCHANGED <<exportVars, scanVars>>
    /\ UNCHANGED <<workers, extractedClips, stepComplete, videoFiles, now, args, ret, metadataFiles, timecodes, periodChapters, analysisResult,
                   selectedChapters, toExtract, secBefore, secAfter, clipGroups>>

NextRerun == Detect \/ Rerun

SpecRerun == InitDetect /\ [][NextRerun]_vars

\* ------------------------------------------------------------------ the timecode functions on any string

\* Two-digit fields of the timecodes tried; 61 and 99 are frame counts above
\* the frame rate, 99 is also tried as a minute above 59.
HourFields == {<<"0", "0">>, <<"1", "1">>, <<"2", "3">>}
MinuteFields == {<<"4", "9">>, <<"9", "9">>}
SecondFields == {<<"2", "2">>, <<"5", "9">>}
FrameFields == {<<"0", "0">>, <<"3", "0">>, <<"5", "9">>, <<"6", "1">>, <<"9", "9">>}

\* HH:MM:SS:FF and HH:MM:SS;FF.
WellFormedTimecodes ==
    {hh \o <<":">> \o mm \o <<":">> \o ss \o <<sep>> \o ff :
        hh \in HourFields, mm \in MinuteFields, ss \in SecondFields,
        sep \in {":", ";"}, ff \in FrameFields}

\* Strings with no timecode in them: too short, wrong separators, a letter
\* in a field, a missing field.
NoTimecodes ==
    {<<"1", "1", ":", "4", "9", ":", "2", "2">>,
     <<>>,
     <<"1", "1", ":", "4", "9", ":", "2", "2", ":", "3">>,
     <<"1", "1", "-", "4", "9", "-", "2", "2", "-", "3", "0">>,
     <<"1", "1", ":", "4", "9", ":", "2", "2", ".", "3", "0">>,
     <<"1", "a", ":", "4", "9", ":", "2", "2", ":", "3", "0">>,
     <<"1", "1", ":", "4", "9", ":", "2", "2", ":">>,
     <<":", "4", "9", ":", "2", "2", ":", "3", "0">>}

\* Strings that are not a timecode but have one inside.
EmbeddedTimecodes ==
    {<<"x", "1", "1", ":", "4", "9", ":", "2", "2", ":", "3", "0">>,
     <<"1", "1", "1", ":", "4", "9", ":", "2", "2", ";", "3", "0">>,
     <<"1", "1", ":", "4", "9", ":", "2", "2", ":", "3", "0", "1">>,
     <<"1", "1", ":", "4", "9", ":", "2", "2", "1", "1", ":", "4", "9", ":", "2", "3", ";", "6", "1">>}

Timecodes == WellFormedTimecodes \cup NoTimecodes \cup EmbeddedTimecodes

InitTimecode ==
    /\ pc = "timecode"
    /\ \E starts \in SeqsUpTo(VideoTimes, MaxChapters) :
         \E timecode \in Timecodes :
            args = <<ParseFFMetadata(starts), timecode>>
    /\ ret = <<>>
    /\ now = 0
    /\ workers = <<>>
    /\ extractedClips = <<>>
    /\ stepComplete = FALSE
    /\ cancelFlag = FALSE
    /\ currentCmd = 0
    /\ encoders = <<>>
    /\ exportOp = NoOperation
    /\ folder = {}
    /\ scans = <<>>
    /\ detectedPeriods = <<>>
    /\ analyzeBtn = FALSE
    /\ appPeriods = <<>>
    /\ videoFiles = [p \in PeriodNames |-> TRUE]
    /\ metadataFiles = <<>>
    /\ timecodes = <<>>
    /\ periodChapters = <<>>
    /\ analysisResult = <<>>
    /\ selectedChapters = {}
    /\ toExtract = <<>>
    /\ secBefore = 0
    /\ secAfter = 0
    /\ clipGroups = <<>>
    /\ rerunInput = <<>>
    /\ rerunGroups = <<>>

\* The two parsers are applied to the timecode.
ParseTimecode ==
    /\ pc = "timecode"
    /\ ret' = <<ParseTimecodeToTime(args[2], now), TimecodeToSeconds(args[2])>>
    /\ pc' = "parsed"
    /\ UNCHANGED <<now, args>>
    /\ UNCHANGED jobVars
    /\ UNCHANGED <<exportVars, scanVars>>
    /\ UNCHANGED flowVars

\* The mapper is applied to the chapters and the timecode.
MapToClockTime ==
    /\ pc = "parsed"
    /\ ret' = Append(ret, MapChaptersToClockTimeOf(args[1], args[2], now))
    /\ pc' = "mapped"
    /\ UNCHANGED <<now, args>>
    /\ UNCHANGED jobVars
    /\ UNCHANGED <<exportVars, scanVars>>
    /\ UNCHANGED flowVars

\* Local midnight passes: time.Now() reports the next day.
Midnight ==
    /\ pc = "mapped"
    /\ now' = now + 1
    /\ pc' = "nextDay"
    /\ UNCHANGED <<args, ret>>
    /\ UNCHANGED jobVars
    /\ UNCHANGED <<exportVars, scanVars>>
    /\ UNCHANGED flowVars

\* The mapper is applied to the same arguments again.
MapAgain ==
    /\ pc \in {"mapped", "nextDay"}
    /\ ret' = Append(ret, MapChaptersToClockTimeOf(args[1], args[2], now))
    /\ pc' = "mappedAgain"
    /\ UNCHANGED <<now, args>>
    /\ UNCHANGED jobVars
    /\ UNCHANGED <<exportVars, scanVars>>
    /\ UNCHANGED flowVars

NextTimecode == ParseTimecode \/ MapToClockTime \/ Midnight \/ MapAgain

SpecTimecode == InitTimecode /\ [][NextTimecode]_vars

\* ------------------------------------------------------------------ the parser on any file

\* Lines of the files tried: chapter starts in whole and fractional seconds,
\* indented, with a prefix, with a suffix, without digits, another key, and
\* chapter blocks in units of 1/10000000 s and of 1/1000 s.
FileLines ==
    {<<"S", "T", "A", "R", "T", "=", "0">>,
     <<"S", "T", "A", "R", "T", "=", "1", "5", "0", "0">>,
     <<"S", "T", "A", "R", "T", "=", "1", "0", "0", "0">>,
     <<" ", "S", "T", "A", "R", "T", "=", "2", "0", "0", "0">>,
     <<"\t", "S", "T", "A", "R", "T", "=", "2", "0", "0", "0">>,
     <<"x", "S", "T", "A", "R", "T", "=", "3", "0", "0", "0">>,
     <<"E", "N", "D", "=", "1", "5", "0", "0">>,
     <<"S", "T", "A", "R", "T", "=">>,
     <<"T", "I", "M", "E", "B", "A", "S", "E", "=", "1", "/", "1", "0", "0", "0", "0", "0", "0", "0">>,
     <<"S", "T", "A", "R", "T", "=", "3", "0", "0", "0", "0", "0", "0", "0">>,
     <<"S", "T", "A", "R", "T", "=", "2", "5", "0", "m", "s">>,
     <<"T", "I", "M", "E", "B", "A", "S", "E", "=", "1", "/", "1", "0", "0", "0">>}

InitParse ==
    /\ pc = "file"
    /\ \E lines \in SeqsUpTo(FileLines, MaxLines) :
          args = <<lines, <<"1", "1", ":", "4", "9", ":", "2", "2", ":", "3", "0">> >>
    /\ ret = <<>>
    /\ now = 0
    /\ workers = <<>>
    /\ extractedClips = <<>>
    /\ stepComplete = FALSE
    /\ cancelFlag = FALSE
    /\ currentCmd = 0
    /\ encoders = <<>>
    /\ exportOp = NoOperation
    /\ folder = {}
    /\ scans = <<>>
    /\ detectedPeriods = <<>>
    /\ analyzeBtn = FALSE
    /\ appPeriods = <<>>
    /\ videoFiles = [p \in PeriodNames |-> TRUE]
    /\ metadataFiles = <<>>
    /\ timecodes = <<>>
    /\ periodChapters = <<>>
    /\ analysisResult = <<>>
    /\ selectedChapters = {}
    /\ toExtract = <<>>
    /\ secBefore = 0
    /\ secAfter = 0
    /\ clipGroups = <<>>
    /\ rerunInput = <<>>
    /\ rerunGroups = <<>>

\* ParseFFMetadata reads the file.
ParseFile ==
    /\ pc = "file"
    /\ ret' = <<ParseFFMetadataFile(args[1])>>
    /\ pc' = "parsedFile"
    /\ UNCHANGED <<now, args>>
    /\ UNCHANGED jobVars
    /\ UNCHANGED <<exportVars, scanVars>>
    /\ UNCHANGED flowVars

\* MapChaptersToClockTime on the parsed chapters and the segment's timecode.
MapParsed ==
    /\ pc = "parsedFile"
    /\ ret' = Append(ret, MapChaptersToClockTimeOf(ret[1], args[2], now).chapters)
    /\ pc' = "mappedFile"
    /\ UNCHANGED <<now, args>>
    /\ UNCHANGED jobVars
    /\ UNCHANGED <<exportVars, scanVars>>
    /\ UNCHANGED flowVars

\* MergeAndSortChapters on the map that holds the one period.
MergeParsed ==
    /\ pc = "mappedFile"
    /\ \E merged \in MergeAndSortChapters([p \in {"1Period"} |-> ret[2]]) :
          ret' = Append(ret, merged)
    /\ pc' = "mergedFile"
    /\ UNCHANGED <<now, args>>
    /\ UNCHANGED jobVars
    /\ UNCHANGED <<exportVars, scanVars>>
    /\ UNCHANGED flowVars

\* The analysis result is written with SaveToJSON and read with LoadFromJSON.
SaveLoad ==
    /\ pc = "mergedFile"
    /\ ret' = Append(ret, SaveAndLoad(ret[3]))
    /\ pc' = "loaded"
    /\ UNCHANGED <<now, args>>
    /\ UNCHANGED jobVars
    /\ UNCHANGED <<exportVars, scanVars>>
    /\ UNCHANGED flowVars

NextParse == ParseFile \/ MapParsed \/ MergeParsed \/ SaveLoad

SpecParse == InitParse /\ [][NextParse]_vars

\* ------------------------------------------------------------------ the chapter export on any group

\* Chapters of one period, numbered and ordered by position.
ClipInputs ==
    { [i \in 1..Len(l) |-> Chapter(i, l[i], l[i], l[i], i, "1Period")] :
        l \in SeqsUpTo(ClipVideoTimes, MaxChapters) }

InitClip ==
    /\ pc = "clip"
    /\ toExtract \in ClipInputs
    /\ secBefore \in Paddings
    /\ secAfter \in Paddings
    /\ metadataFiles = <<>>
    /\ timecodes = <<>>
    /\ periodChapters = <<>>
    /\ analysisResult = <<>>
    /\ selectedChapters = {}
    /\ clipGroups = <<>>
    /\ rerunInput = <<>>
    /\ rerunGroups = <<>>
    /\ now = 0
    /\ workers = <<>>
    /\ extractedClips = <<>>
    /\ stepComplete = FALSE
    /\ cancelFlag = FALSE
    /\ currentCmd = 0
    /\ encoders = <<>>
    /\ exportOp = NoOperation
    /\ folder = {}
    /\ scans = <<>>
    /\ detectedPeriods = <<>>
    /\ analyzeBtn = FALSE
    /\ appPeriods = <<>>
    /\ videoFiles = [p \in PeriodNames |-> TRUE]
    /\ args = <<>>
    /\ ret = <<>>

\* The groups are built as the extract handler builds them.
GroupClips ==
    /\ pc = "clip"
    /\ clipGroups' \in DetectOverlappingChapters(toExtract, secBefore, secAfter)
    /\ pc' = "grouped"
    /\ UNCHANGED <<exportVars, scanVars>>
    /\ UNCHANGED <<workers, extractedClips, stepComplete, videoFiles, now, args, ret, metadataFiles, timecodes, periodChapters,
                   analysisResult, selectedChapters, toExtract, secBefore,
                   secAfter, rerunInput, rerunGroups>>

\* GetClipChapters is called on every group.
ExportChapters ==
    /\ pc = "grouped"
    /\ ret' = [i \in 1..Len(clipGroups) |-> GetClipChapters(clipGroups[i])]
    /\ pc' = "exported"
    /\ UNCHANGED <<now, args>>
    /\ UNCHANGED jobVars
    /\ UNCHANGED <<exportVars, scanVars>>
    /\ UNCHANGED flowVars

\* The pairs of StartTime and EndTime (ms) of a group whose Duration in
\* float64 seconds, times 1000, is just below the whole number of ms: a
\* last member at 2.611 s in a group that starts at a whole second
\* (3.6109999999999998 - 1 is 2.6109999999999998, times 1000 is
\* 2610.9999999999995).
DurationRoundsBelow == {0, Tick, 2 * Tick} \X {2611, 2611 + Tick}

\* durationMs := int64(durationSec * 1000) for the Duration of a group.
DurationMs(g) ==
    IF <<g.StartTime, g.EndTime>> \in DurationRoundsBelow
    THEN g.Duration - 1
    ELSE g.Duration

\* The [CHAPTER] entries ExtractClipWithChapters and
\* ExtractClipStreamCopyWithChapters write: each ends where the next starts,
\* the last at durationMs.
ChapterEntries(chapters, durationMs) ==
    [i \in 1..Len(chapters) |->
        [START |-> chapters[i].OffsetMs,
         END |-> IF i < Len(chapters) THEN chapters[i + 1].OffsetMs ELSE durationMs]]

\* What the encoder is asked for: "-ss" and "-t", as ms.
EncoderRequest(startSec, durationSec) == [start |-> startSec, duration |-> durationSec]

\* The Step 2 worker calls the extraction with the timing of the group.
Step2Request(g) == EncoderRequest(g.StartTime, g.Duration)

\* doExtractClip calls ExtractClip with a timing of its own.
doExtractClip(chapter, before, after) ==
    EncoderRequest(IF chapter.VideoTime - before < 0 THEN 0 ELSE chapter.VideoTime - before,
                   before + after)

\* The chapter file of every group is written.
WriteChapterFiles ==
    /\ pc = "exported"
    /\ ret' = [i \in 1..Len(clipGroups) |->
                 ChapterEntries(ret[i], DurationMs(clipGroups[i]))]
    /\ pc' = "written"
    /\ UNCHANGED args
    /\ UNCHANGED otherThanCall

\* Step 3 extracts the primary chapter of every group again, with the
\* padding of Step 2.
ReExtractClips ==
    /\ pc = "grouped"
    /\ ret' = [i \in 1..Len(clipGroups) |->
                 doExtractClip(clipGroups[i].PrimaryChapter, secBefore, secAfter)]
    /\ pc' = "reextracted"
    /\ UNCHANGED args
    /\ UNCHANGED otherThanCall

NextClip == GroupClips \/ ExportChapters \/ WriteChapterFiles \/ ReExtractClips

SpecClip == InitClip /\ [][NextClip]_vars

\* ------------------------------------------------------------------ the analysis with failing reads

\* What reading a period's timecode may give when it does not fail: a
\* timecode, or text that is none.
ProbedTimecodes ==
    { <<"1", "1", ":", "4", "9", ":", "2", "2", ":", "3", "0">>,
      <<"1", "1", ":", "4", "9", ":", "2", "2">> }

\* The two periods of the Analyze handler with every outcome of their reads.
AnalyzeInputs ==
    { [i \in 1..2 |->
          [Name |-> Periods[i], metaErr |-> o[i][1], starts |-> l[i],
           tcErr |-> o[i][2], timecode |-> o[i][3]]] :
        l \in {m \in (SeqsUpTo(VideoTimes, MaxChapters) \X SeqsUpTo(VideoTimes, MaxChapters)) :
                  Len(m[1]) + Len(m[2]) <= MaxChapters},
        o \in (BOOLEAN \X BOOLEAN \X ProbedTimecodes)
                 \X (BOOLEAN \X BOOLEAN \X ProbedTimecodes) }

InitAnalyze ==
    /\ pc = "analyze"
    /\ args \in AnalyzeInputs
    /\ ret = <<>>
    /\ now = 0
    /\ workers = <<>>
    /\ extractedClips = <<>>
    /\ stepComplete = FALSE
    /\ cancelFlag = FALSE
    /\ currentCmd = 0
    /\ encoders = <<>>
    /\ exportOp = NoOperation
    /\ folder = {}
    /\ scans = <<>>
    /\ detectedPeriods = <<>>
    /\ analyzeBtn = FALSE
    /\ appPeriods = <<>>
    /\ videoFiles = [p \in PeriodNames |-> TRUE]
    /\ metadataFiles = <<>>
    /\ timecodes = <<>>
    /\ periodChapters = <<>>
    /\ analysisResult = <<>>
    /\ selectedChapters = {}
    /\ toExtract = <<>>
    /\ secBefore = 0
    /\ secAfter = 0
    /\ clipGroups = <<>>
    /\ rerunInput = <<>>
    /\ rerunGroups = <<>>

\* AnalyzePeriods is called on the periods.
AnalyzeAll ==
    /\ pc = "analyze"
    /\ ret' \in AnalyzePeriods(args, now)
    /\ pc' = "analysisDone"
    /\ UNCHANGED <<now, args>>
    /\ UNCHANGED jobVars
    /\ UNCHANGED <<exportVars, scanVars>>
    /\ UNCHANGED flowVars

NextAnalyze == AnalyzeAll

SpecAnalyze == InitAnalyze /\ [][NextAnalyze]_vars

\* ------------------------------------------------------------------ the Step 2 extraction worker

\* GenerateGroupFilename: the output file of a group, given as the values
\* its name is made of (GlobalOrder, ClockTime, Period, first and last
\* chapter number; last is 0 for a single chapter).
GenerateGroupFilename(group) ==
    [GlobalOrder |-> group.PrimaryChapter.GlobalOrder,
     ClockTime |-> group.PrimaryChapter.ClockTime,
     Period |-> group.PrimaryChapter.Period,
     First |-> group.PrimaryChapter.Number,
     Last |-> IF group.IsOverlap
              THEN group.Chapters[Len(group.Chapters)].Number ELSE 0]

\* The button can be clicked again while a worker runs; two clicks are tried.
Clicks == {"first", "second"}

\* Worker w has not reached the end of its goroutine.
Running(w) == workers[w].pc # "done"

\* a.extractedClips = append(a.extractedClips, outputFile), which no lock
\* protects: alone, the path is appended; while another worker runs, the
\* append may also start from a slice header read before later appends,
\* which are then lost.
AppendClip(w, outputFile) ==
    IF \E v \in 1..Len(workers) : v # w /\ Running(v)
    THEN { Append(SubSeq(extractedClips, 1, k), outputFile) :
              k \in 0..Len(extractedClips) }
    ELSE { Append(extractedClips, outputFile) }

InitExtract ==
    /\ pc = "analyzed"
    /\ \E files \in [PeriodNames -> SeqsUpTo({0, 2 * Tick}, MaxJobs)] :
          /\ TotalStarts(files) <= MaxJobs
          /\ metadataFiles = files
          /\ timecodes = [p \in PeriodNames |-> 0]
          /\ periodChapters = BuildPeriodChapters(Periods, files, timecodes)
          /\ analysisResult \in MergeAndSortChapters(periodChapters)
    /\ selectedChapters = {analysisResult[i].GlobalOrder : i \in 1..Len(analysisResult)}
    /\ toExtract = <<>>
    /\ secBefore = 0
    /\ secAfter = Tick
    /\ clipGroups = <<>>
    /\ rerunInput = <<>>
    /\ rerunGroups = <<>>
    /\ workers = <<>>
    /\ extractedClips = <<>>
    /\ stepComplete = FALSE
    /\ cancelFlag = FALSE
    /\ currentCmd = 0
    /\ encoders = <<>>
    /\ exportOp = NoOperation
    /\ folder = {}
    /\ scans = <<>>
    /\ detectedPeriods = <<>>
    /\ analyzeBtn = FALSE
    /\ appPeriods = <<>>
    /\ videoFiles \in {f \in [PeriodNames -> BOOLEAN] : f["1Period"]}
    /\ now = 0
    /\ args = <<>>
    /\ ret = <<>>

\* Extract Selected Clips is clicked, before or during an extraction.
ClickExtract ==
    /\ pc \in {"analyzed", "detected"}
    /\ Len(workers) < Cardinality(Clicks)
    /\ Len(analysisResult) > 0
    /\ Len(SelectedOf(analysisResult, selectedChapters)) > 0
    /\ toExtract' = SelectedOf(analysisResult, selectedChapters)
    /\ clipGroups' \in DetectOverlappingChapters(toExtract', secBefore, secAfter)
    /\ extractedClips' = <<>>
    /\ workers' = Append(workers, NewWorker(clipGroups'))
    /\ pc' = "detected"
    /\ UNCHANGED <<exportVars, scanVars>>
    /\ UNCHANGED <<stepComplete, videoFiles, now, args, ret, metadataFiles, timecodes,
                   periodChapters, analysisResult, selectedChapters, secBefore,
                   secAfter, rerunInput, rerunGroups>>

\* A worker takes its next group: without a video file for the group's
\* period it goes on to the next group, otherwise it calls the encoder.
StartGroup ==
    \E w \in 1..Len(workers) :
        LET me == workers[w]
        IN  /\ me.pc = "next"
            /\ me.i <= Len(me.groups)
            /\ workers' =
                  [workers EXCEPT ![w] =
                      IF videoFiles[me.groups[me.i].Period]
                      THEN [me EXCEPT !.pc = "encoding",
                                      !.attempted = Append(@, me.i)]
                      ELSE [me EXCEPT !.i = @ + 1,
                                      !.attempted = Append(@, me.i)]]
            /\ UNCHANGED <<extractedClips, stepComplete, videoFiles, pc, now, args, ret>>
            /\ UNCHANGED flowVars
            /\ UNCHANGED <<exportVars, scanVars>>

\* The encoder call of a worker returns, with an error or without.
EncoderReturns ==
    \E w \in 1..Len(workers) :
        LET me == workers[w]
            outputFile == GenerateGroupFilename(me.groups[me.i])
        IN  /\ me.pc = "encoding"
            /\ \/ /\ workers' = [workers EXCEPT ![w] = [me EXCEPT !.pc = "next", !.i = @ + 1]]
                  /\ UNCHANGED extractedClips
               \/ /\ extractedClips' \in AppendClip(w, outputFile)
                  /\ workers' =
                        [workers EXCEPT ![w] =
                            [me EXCEPT !.pc = "next", !.i = @ + 1,
                                       !.completedClips = @ + 1,
                                       !.succeeded = Append(@, outputFile)]]
            /\ UNCHANGED <<stepComplete, videoFiles, pc, now, args, ret>>
            /\ UNCHANGED flowVars
            /\ UNCHANGED <<exportVars, scanVars>>

\* After its last group a worker counts a.extractedClips and marks Step 2
\* complete if the count is positive.
FinishRun ==
    \E w \in 1..Len(workers) :
        LET me == workers[w]
        IN  /\ me.pc = "next"
            /\ me.i > Len(me.groups)
            /\ workers' = [workers EXCEPT ![w] =
                              [me EXCEPT !.pc = "done",
                                         !.marked = Len(extractedClips) > 0]]
            /\ stepComplete' = (stepComplete \/ Len(extractedClips) > 0)
            /\ UNCHANGED <<extractedClips, videoFiles, pc, now, args, ret>>
            /\ UNCHANGED flowVars
            /\ UNCHANGED <<exportVars, scanVars>>

NextExtract == ClickExtract \/ StartGroup \/ EncoderReturns \/ FinishRun

SpecExtract == InitExtract /\ [][NextExtract]_vars

\* ------------------------------------------------------------------ ffmpeg: combine, export and cancel

\* The operations CancelExport is for.
Operations == {"ConcatClipsWithEncode", "ExportFullGame"}

\* exec.Command: a command that has not been started (its Process is nil).
Command(codec) == [codec |-> codec, state |-> "created", afterCancel |-> exportOp.cancelled]

\* The command of the encoder call the operation is in.
InFlight == encoders[Len(encoders)]

\* The operation is between its call and its return.
OperationRunning == exportOp.pc \notin {"idle", "done"}

\* ResetCancel.
ResetCancel ==
    /\ cancelFlag' = FALSE
    /\ currentCmd' = 0

InitCancel ==
    /\ pc = "combine"
    /\ metadataFiles = [p \in PeriodNames |-> <<>>]
    /\ timecodes = [p \in PeriodNames |-> 0]
    /\ periodChapters = <<>>
    /\ analysisResult = <<>>
    /\ selectedChapters = {}
    /\ toExtract = <<>>
    /\ secBefore = 0
    /\ secAfter = 0
    /\ clipGroups = <<>>
    /\ rerunInput = <<>>
    /\ rerunGroups = <<>>
    /\ workers = <<>>
    /\ extractedClips = <<>>
    /\ stepComplete = FALSE
    /\ videoFiles = [p \in PeriodNames |-> TRUE]
    /\ cancelFlag = FALSE
    /\ currentCmd = 0
    /\ encoders = <<>>
    /\ exportOp = NoOperation
    /\ folder = {}
    /\ scans = <<>>
    /\ detectedPeriods = <<>>
    /\ analyzeBtn = FALSE
    /\ appPeriods = <<>>
    /\ now = 0
    /\ args = <<>>
    /\ ret = <<>>

\* The operation is called; the combine handler calls ResetCancel first,
\* the export handler does not: the flag stays as it was, and currentCmd
\* stays the command of the operation before, whose process has ended, so
\* that killing it does what killing none does. The operation reads
\* durations and chapters and writes the chapter file before it encodes.
StartOperation ==
    /\ exportOp.pc = "idle"
    /\ encoders' = <<>>
    /\ \E kind \in Operations, forceCPU \in BOOLEAN :
          /\ exportOp' = [kind |-> kind, forceCPU |-> forceCPU, pc |-> "prepare",
                          result |-> "", cancelled |-> FALSE]
          /\ IF kind = "ConcatClipsWithEncode"
             THEN ResetCancel
             ELSE /\ currentCmd' = 0
                  /\ UNCHANGED cancelFlag
    /\ UNCHANGED otherThanExport

\* exec.Command and f.currentCmd = cmd, in concatClipsEncodeNVENC or
\* exportFullGameNVENC, or in the CPU function when forceCPU is set.
CreateCommand ==
    /\ exportOp.pc = "prepare"
    /\ encoders' = Append(encoders, Command(IF exportOp.forceCPU THEN "cpu" ELSE "nvenc"))
    /\ currentCmd' = Len(encoders')
    /\ exportOp' = [exportOp EXCEPT !.pc = "run"]
    /\ UNCHANGED cancelFlag
    /\ UNCHANGED otherThanExport

\* cmd.Run starts the process.
ProcessStarts ==
    /\ exportOp.pc = "run"
    /\ InFlight.state = "created"
    /\ encoders' = [encoders EXCEPT ![Len(encoders)].state = "running"]
    /\ UNCHANGED <<cancelFlag, currentCmd, exportOp>>
    /\ UNCHANGED otherThanExport

\* The encoder process ends by itself, with exit status 0 or not.
ProcessExits ==
    /\ exportOp.pc = "run"
    /\ InFlight.state = "running"
    /\ \E state \in {"exited", "failed"} :
          encoders' = [encoders EXCEPT ![Len(encoders)].state = state]
    /\ UNCHANGED <<cancelFlag, currentCmd, exportOp>>
    /\ UNCHANGED otherThanExport

\* The error of the encoder function whose cmd.Run has returned.
RunError ==
    IF InFlight.state = "exited" THEN ""
    ELSE IF cancelFlag THEN "cancelled" ELSE "failed"

\* cmd.Run returns in the NVENC function: without an error the operation
\* returns nil, with any error it calls the CPU function.
NvencReturns ==
    /\ exportOp.pc = "run"
    /\ InFlight.codec = "nvenc"
    /\ InFlight.state \in {"exited", "failed", "killed"}
    /\ IF RunError = ""
       THEN /\ exportOp' = [exportOp EXCEPT !.pc = "done", !.result = "success"]
            /\ UNCHANGED <<encoders, currentCmd>>
       ELSE /\ encoders' = Append(encoders, Command("cpu"))
            /\ currentCmd' = Len(encoders')
            /\ UNCHANGED exportOp
    /\ UNCHANGED cancelFlag
    /\ UNCHANGED otherThanExport

\* cmd.Run returns in the CPU function, and the operation returns its error.
CpuReturns ==
    /\ exportOp.pc = "run"
    /\ InFlight.codec = "cpu"
    /\ InFlight.state \in {"exited", "failed", "killed"}
    /\ exportOp' = [exportOp EXCEPT !.pc = "done",
                                    !.result = IF RunError = "" THEN "success" ELSE RunError]
    /\ UNCHANGED <<cancelFlag, currentCmd, encoders>>
    /\ UNCHANGED otherThanExport

\* CancelExport, called while the operation runs: sets the flag and kills
\* the process of currentCmd if there is one.
CancelExport ==
    /\ OperationRunning
    /\ cancelFlag' = TRUE
    /\ encoders' = IF currentCmd # 0 /\ encoders[currentCmd].state = "running"
                   THEN [encoders EXCEPT ![currentCmd].state = "killed"]
                   ELSE encoders
    /\ exportOp' = [exportOp EXCEPT !.cancelled = TRUE]
    /\ UNCHANGED currentCmd
    /\ UNCHANGED otherThanExport

\* The caller has shown the result; the next operation can be started.
OperationShown ==
    /\ exportOp.pc = "done"
    /\ exportOp' = [exportOp EXCEPT !.pc = "idle"]
    /\ UNCHANGED <<cancelFlag, currentCmd, encoders>>
    /\ UNCHANGED otherThanExport

NextCancel ==
    \/ StartOperation
    \/ CreateCommand
    \/ ProcessStarts
    \/ ProcessExits
    \/ NvencReturns
    \/ CpuReturns
    \/ CancelExport
    \/ OperationShown

SpecCancel == InitCancel /\ [][NextCancel]_vars

\* ------------------------------------------------------------------ Step 1: folder scans

\* The MOV files a folder can hold, numbered in the order of their base names.
MovFiles == {1, 2}

\* What starts a scan: Select Folder, Refresh, the rescan after an extraction.
ScanCauses == {"select", "refresh", "rescan"}

\* sort.Slice of the MOV files by base name; base names in a folder differ.
RECURSIVE SortedByBaseName(_)
SortedByBaseName(files) ==
    IF files = {} THEN <<>>
    ELSE LET first == CHOOSE f \in files : \A g \in files : f <= g
         IN  <<first>> \o SortedByBaseName(files \ {first})

InitScan ==
    /\ pc = "step1"
    /\ metadataFiles = [p \in PeriodNames |-> <<>>]
    /\ timecodes = [p \in PeriodNames |-> 0]
    /\ periodChapters = <<>>
    /\ analysisResult = <<>>
    /\ selectedChapters = {}
    /\ toExtract = <<>>
    /\ secBefore = 0
    /\ secAfter = 0
    /\ clipGroups = <<>>
    /\ rerunInput = <<>>
    /\ rerunGroups = <<>>
    /\ workers = <<>>
    /\ extractedClips = <<>>
    /\ stepComplete = FALSE
    /\ videoFiles = [p \in PeriodNames |-> TRUE]
    /\ cancelFlag = FALSE
    /\ currentCmd = 0
    /\ encoders = <<>>
    /\ exportOp = NoOperation
    /\ folder \in SUBSET MovFiles
    /\ scans = <<>>
    /\ detectedPeriods = <<>>
    /\ analyzeBtn = FALSE
    /\ appPeriods = <<>>
    /\ now = 0
    /\ args = <<>>
    /\ ret = <<>>

\* scanFolder on the UI thread: clears the list and starts the goroutine.
ScanFolder ==
    /\ Len(scans) < Cardinality(ScanCauses)
    /\ detectedPeriods' = <<>>
    /\ analyzeBtn' = FALSE
    /\ scans' = Append(scans, [pc |-> "reading", movFiles |-> <<>>])
    /\ UNCHANGED <<folder, appPeriods>>
    /\ UNCHANGED otherThanScan

\* The goroutine of a scan reads the folder, probes and sorts the files; it
\* ends there if it found no video file, else it posts its results.
ReadFolder ==
    \E w \in 1..Len(scans) :
        /\ scans[w].pc = "reading"
        /\ scans' = [scans EXCEPT ![w] =
                        [pc |-> IF folder = {} THEN "done" ELSE "scanned",
                         movFiles |-> SortedByBaseName(folder)]]
        /\ UNCHANGED <<folder, detectedPeriods, analyzeBtn, appPeriods>>
        /\ UNCHANGED otherThanScan

\* The results of a scan on the UI thread: one period is appended to
\* detectedPeriods for each MOV file; the Analyze button is enabled, disabled
\* or left alone depending on the metadata found.
ShowResults ==
    \E w \in 1..Len(scans) :
        /\ scans[w].pc = "scanned"
        /\ detectedPeriods' = detectedPeriods \o scans[w].movFiles
        /\ analyzeBtn' \in BOOLEAN
        /\ scans' = [scans EXCEPT ![w].pc = "done"]
        /\ UNCHANGED <<folder, appPeriods>>
        /\ UNCHANGED otherThanScan

\* Analyze and Continue: one period is built for each detected period.
AnalyzeTapped ==
    /\ analyzeBtn
    /\ Len(detectedPeriods) > 0
    /\ appPeriods' = detectedPeriods
    /\ UNCHANGED <<folder, scans, detectedPeriods, analyzeBtn>>
    /\ UNCHANGED otherThanScan

NextScan == ScanFolder \/ ReadFolder \/ ShowResults \/ AnalyzeTapped

SpecScan == InitScan /\ [][NextScan]_vars

\* ------------------------------------------------------------------ ffmpeg: chapters of joined files

\* The state outside a call of a function of package ffmpeg: nothing has
\* been analysed, extracted, combined or scanned.
NoSession ==
    /\ metadataFiles = <<>>
    /\ timecodes = <<>>
    /\ periodChapters = <<>>
    /\ analysisResult = <<>>
    /\ selectedChapters = {}
    /\ toExtract = <<>>
    /\ secBefore = 0
    /\ secAfter = 0
    /\ clipGroups = <<>>
    /\ rerunInput = <<>>
    /\ rerunGroups = <<>>
    /\ workers = <<>>
    /\ extractedClips = <<>>
    /\ stepComplete = FALSE
    /\ videoFiles = [p \in PeriodNames |-> TRUE]
    /\ cancelFlag = FALSE
    /\ currentCmd = 0
    /\ encoders = <<>>
    /\ exportOp = NoOperation
    /\ folder = {}
    /\ scans = <<>>
    /\ detectedPeriods = <<>>
    /\ analyzeBtn = FALSE
    /\ appPeriods = <<>>
    /\ now = 0

\* Durations ffprobe reports, in ms: 1.000000 s and 1.001000 s.
Durations == {Tick, Tick + 1}

\* Chapter lists GetChapters returns for an input file, as StartMs and EndMs.
ChapterLists ==
    { <<>>,
      <<[StartMs |-> 0, EndMs |-> 500]>>,
      <<[StartMs |-> 0, EndMs |-> 500], [StartMs |-> 500, EndMs |-> Tick]>> }

\* The numbers of input files tried.
InputCounts == {1, 2, 3}

RECURSIVE SumMs(_)
SumMs(durations) ==
    IF durations = <<>> THEN 0
    ELSE durations[1] + SumMs(Tail(durations))

\* The duration lists whose float64 sum of seconds, times 1000, is just
\* below the whole number of ms (IEEE-754 double, summed left to right):
\* 1.001 * 1000 is 1000.9999999999999, 2.002 (1.001 + 1.001) * 1000 is
\* 2001.9999999999998, and likewise three times 1.001.
SumRoundsBelow ==
    { durations \in UNION {[1..n -> Durations] : n \in InputCounts} :
         \A k \in 1..Len(durations) : durations[k] = Tick + 1 }

\* int64(offset * 1000) for offset the float64 sum of the durations.
OffsetMs(durations) ==
    IF durations \in SumRoundsBelow THEN SumMs(durations) - 1 ELSE SumMs(durations)

\* The durations of the input files before file i.
DurationsBefore(files, i) == [j \in 1..(i - 1) |-> files[j].Duration]

\* The durations of the input files up to file i.
DurationsUpTo(files, i) == [j \in 1..i |-> files[j].Duration]

\* The chapters of input file i with the offset added.
ShiftedChapters(files, i) ==
    [j \in 1..Len(files[i].Chapters) |->
        [StartMs |-> files[i].Chapters[j].StartMs + OffsetMs(DurationsBefore(files, i)),
         EndMs |-> files[i].Chapters[j].EndMs + OffsetMs(DurationsBefore(files, i))]]

\* The chapter that marks a whole input file: a clip without chapters in
\* ConcatClips, a period in ExportFullGame.
WholeFileChapter(files, i) ==
    [StartMs |-> OffsetMs(DurationsBefore(files, i)),
     EndMs |-> OffsetMs(DurationsUpTo(files, i))]

\* allChapters of ConcatClips, from input file i on.
RECURSIVE ConcatClipsFrom(_, _)
ConcatClipsFrom(files, i) ==
    IF i > Len(files) THEN <<>>
    ELSE (IF Len(files[i].Chapters) = 0
          THEN <<WholeFileChapter(files, i)>>
          ELSE ShiftedChapters(files, i))
         \o ConcatClipsFrom(files, i + 1)

ConcatClips(files) == ConcatClipsFrom(files, 1)

\* allChapters of CombineSplitGoPro, from input file i on.
RECURSIVE CombineSplitGoProFrom(_, _)
CombineSplitGoProFrom(files, i) ==
    IF i > Len(files) THEN <<>>
    ELSE ShiftedChapters(files, i) \o CombineSplitGoProFrom(files, i + 1)

CombineSplitGoPro(files) == CombineSplitGoProFrom(files, 1)

\* allChapters of ExportFullGame, from input file i on.
RECURSIVE ExportFullGameFrom(_, _)
ExportFullGameFrom(files, i) ==
    IF i > Len(files) THEN <<>>
    ELSE <<WholeFileChapter(files, i)>> \o ShiftedChapters(files, i)
         \o ExportFullGameFrom(files, i + 1)

ExportFullGame(files) == ExportFullGameFrom(files, 1)

ConcatInputs ==
    UNION {[1..n -> [Duration : Durations, Chapters : ChapterLists]] : n \in InputCounts}

InitConcat ==
    /\ pc = "concat"
    /\ args \in ConcatInputs
    /\ ret = <<>>
    /\ NoSession

CallConcatClips ==
    /\ pc = "concat"
    /\ ret' = [function |-> "ConcatClips", allChapters |-> ConcatClips(args)]
    /\ pc' = "joined"
    /\ UNCHANGED args
    /\ UNCHANGED otherThanCall

CallCombineSplitGoPro ==
    /\ pc = "concat"
    /\ ret' = [function |-> "CombineSplitGoPro", allChapters |-> CombineSplitGoPro(args)]
    /\ pc' = "joined"
    /\ UNCHANGED args
    /\ UNCHANGED otherThanCall

CallExportFullGame ==
    /\ pc = "concat"
    /\ ret' = [function |-> "ExportFullGame", allChapters |-> ExportFullGame(args)]
    /\ pc' = "joined"
    /\ UNCHANGED args
    /\ UNCHANGED otherThanCall

NextConcat == CallConcatClips \/ CallCombineSplitGoPro \/ CallExportFullGame

SpecConcat == InitConcat /\ [][NextConcat]_vars

\* ------------------------------------------------------------------ ffmpeg: target resolution of split files

\* Resolutions GetResolution finds: 720p, 1080p, 4K.
Resolutions ==
    { [Width |-> 1280, Height |-> 720],
      [Width |-> 1920, Height |-> 1080],
      [Width |-> 3840, Height |-> 2160] }

\* GetResolution returns an error.
ProbeError == [Width |-> 0, Height |-> 0]

\* CombineSplitGoPro wants at least two files.
SplitCounts == InputCounts \ {1}

\* The resolutions collected before the first file GetResolution fails on,
\* and whether there was such a file.
RECURSIVE CollectResolutions(_, _)
CollectResolutions(probes, i) ==
    IF i > Len(probes) THEN [resolutions |-> <<>>, needsReencode |-> FALSE]
    ELSE IF probes[i] = ProbeError THEN [resolutions |-> <<>>, needsReencode |-> TRUE]
    ELSE LET rest == CollectResolutions(probes, i + 1)
         IN  [resolutions |-> <<probes[i]>> \o rest.resolutions,
              needsReencode |-> rest.needsReencode]

\* The loop over resolutions[1:]: it stops at the first resolution that
\* differs from the first file's and takes it if it has more pixels.
RECURSIVE FirstDifference(_, _, _)
FirstDifference(resolutions, i, target) ==
    IF i > Len(resolutions)
    THEN [needsReencode |-> FALSE, targetWidth |-> target.Width,
          targetHeight |-> target.Height]
    ELSE IF resolutions[i].Width # target.Width \/ resolutions[i].Height # target.Height
    THEN IF resolutions[i].Width * resolutions[i].Height > target.Width * target.Height
         THEN [needsReencode |-> TRUE, targetWidth |-> resolutions[i].Width,
               targetHeight |-> resolutions[i].Height]
         ELSE [needsReencode |-> TRUE, targetWidth |-> target.Width,
               targetHeight |-> target.Height]
    ELSE FirstDifference(resolutions, i + 1, target)

\* Step 1 of CombineSplitGoPro: needsReencode, targetWidth, targetHeight.
TargetResolution(probes) ==
    LET collected == CollectResolutions(probes, 1)
    IN  IF ~collected.needsReencode /\ Len(collected.resolutions) > 0
        THEN FirstDifference(collected.resolutions, 2, collected.resolutions[1])
        ELSE [needsReencode |-> collected.needsReencode, targetWidth |-> 0,
              targetHeight |-> 0]

InitResolution ==
    /\ pc = "split"
    /\ args \in UNION {[1..n -> Resolutions \cup {ProbeError}] : n \in SplitCounts}
    /\ ret = <<>>
    /\ NoSession

CallTargetResolution ==
    /\ pc = "split"
    /\ ret' = TargetResolution(args)
    /\ pc' = "resolved"
    /\ UNCHANGED args
    /\ UNCHANGED otherThanCall

NextResolution == CallTargetResolution

SpecResolution == InitResolution /\ [][NextResolution]_vars

\* ------------------------------------------------------------------ properties

RECURSIVE SumOfLens(_)
SumOfLens(groups) ==
    IF groups = <<>> THEN 0
    ELSE Len(Head(groups).Chapters) + SumOfLens(Tail(groups))

\* The padded start of a chapter, max(0, videoTime - before), written out.
PaddedStart(ch, before) ==
    IF ch.VideoTime - before < 0 THEN 0 ELSE ch.VideoTime - before

Last(s) == s[Len(s)]

HasMergedGroup(groups) == \E i \in 1..Len(groups) : Len(groups[i].Chapters) > 1

\* C1 (merge coverage): once the detector has run, every input chapter is a
\* member of exactly one returned group - the members of all groups, taken
\* together, are the input chapters with the same multiplicities - and the
\* group sizes add up to the length of the input.
C1_MergeCoverage ==
    pc = "detected" =>
        /\ SameBag(Members(clipGroups), toExtract)
        /\ SumOfLens(clipGroups) = Len(toExtract)

C1_Witness ==
    /\ pc = "detected"
    /\ Len(toExtract) = 3
    /\ Len(clipGroups) = 2
    /\ HasMergedGroup(clipGroups)

\* C2 (no overlap): after Analyze and Extract Selected Clips, two groups of
\* the same period whose primary chapters are in global order g1 before g2
\* have g1.EndTime <= g2.StartTime.
C2_NoOverlap ==
    pc = "detected" =>
        \A i, j \in 1..Len(clipGroups) :
            ( /\ clipGroups[i].Period = clipGroups[j].Period
              /\ clipGroups[i].PrimaryChapter.GlobalOrder
                   < clipGroups[j].PrimaryChapter.GlobalOrder )
            => clipGroups[i].EndTime <= clipGroups[j].StartTime

C2_Witness ==
    /\ pc = "detected"
    /\ secBefore > 0
    /\ secAfter > 0
    /\ \E i, j \in 1..Len(clipGroups) :
          /\ clipGroups[i].Period = clipGroups[j].Period
          /\ clipGroups[i].PrimaryChapter.GlobalOrder
               < clipGroups[j].PrimaryChapter.GlobalOrder
          /\ Len(clipGroups[i].Chapters) > 1

Windows(groups) == [i \in 1..Len(groups) |-> <<groups[i].StartTime, groups[i].EndTime>>]

\* C4 (window arithmetic): every returned group starts at max(0, video time
\* of its first member - beforePadding) and ends at the video time of its
\* last member + afterPadding; empty input gives empty output; a period with
\* a single chapter gives one unmerged group; a chapter at 3 s with 8 s
\* before starts at 0; chapters at 10 s, 70 s, 75 s with 8 s before and 2 s
\* after give the windows [2,12] and [62,77].
C4_WindowArithmetic ==
    pc = "detected" =>
        /\ \A i \in 1..Len(clipGroups) :
             /\ clipGroups[i].StartTime
                  = PaddedStart(clipGroups[i].Chapters[1], secBefore)
             /\ clipGroups[i].EndTime
                  = Last(clipGroups[i].Chapters).VideoTime + secAfter
        /\ (toExtract = <<>> => clipGroups = <<>>)
        /\ \A p \in PeriodNames :
             Cardinality({n \in 1..Len(toExtract) : toExtract[n].Period = p}) = 1
             => \E i \in 1..Len(clipGroups) :
                   /\ clipGroups[i].Period = p
                   /\ ~clipGroups[i].IsOverlap
                   /\ Len(clipGroups[i].Chapters) = 1
                   /\ \A j \in 1..Len(clipGroups) : clipGroups[j].Period = p => j = i
        /\ (toExtract = ScenarioB /\ secBefore = 8 * Tick
              => clipGroups[1].StartTime = 0)
        /\ (toExtract = ScenarioA /\ secBefore = 8 * Tick /\ secAfter = 2 * Tick
              => Windows(clipGroups)
                   = << <<2 * Tick, 12 * Tick>>, <<62 * Tick, 77 * Tick>> >>)

C4_Witness ==
    /\ pc = "detected"
    /\ toExtract = ScenarioA
    /\ Len(clipGroups) = 2
    /\ clipGroups[2].IsOverlap

\* C5 (cross-segment independence): every member chapter of a returned group
\* has the group's period, so chapters of different periods never share a
\* group.
C5_PeriodIndependence ==
    pc = "detected" =>
        \A i \in 1..Len(clipGroups) :
            \A k \in 1..Len(clipGroups[i].Chapters) :
                clipGroups[i].Chapters[k].Period = clipGroups[i].Period

C5_Witness ==
    /\ pc = "detected"
    /\ secBefore > 0
    /\ secAfter > 0
    /\ Len(toExtract) = 2
    /\ toExtract[1].Period # toExtract[2].Period
    /\ toExtract[1].VideoTime = toExtract[2].VideoTime
    /\ Len(clipGroups) = 2

\* The chapters of the map handed to the merger, each with its key as period.
InputOfMerge(pcs) == CollectChapters(pcs, <<"1Period", "2Period">>)

\* A chapter list with the global order cleared.
Unordered(chapters) ==
    [i \in 1..Len(chapters) |-> [chapters[i] EXCEPT !.GlobalOrder = 0]]

\* C6 (global ordering): the merger returns all N chapters of the map, their
\* GlobalOrder values are exactly 1..N, each used once, and a chapter with a
\* smaller GlobalOrder never has a later ClockTime.
C6_GlobalOrdering ==
    pc = "merged" =>
        /\ SameBag(Unordered(analysisResult), InputOfMerge(periodChapters))
        /\ {analysisResult[i].GlobalOrder : i \in 1..Len(analysisResult)}
             = 1..Len(InputOfMerge(periodChapters))
        /\ \A i, j \in 1..Len(analysisResult) :
             /\ (i # j => analysisResult[i].GlobalOrder # analysisResult[j].GlobalOrder)
             /\ (analysisResult[i].GlobalOrder < analysisResult[j].GlobalOrder
                   => analysisResult[i].ClockTime <= analysisResult[j].ClockTime)

C6_Witness ==
    /\ pc = "merged"
    /\ Len(analysisResult) = 3
    /\ Len(periodChapters["1Period"]) > 0
    /\ Len(periodChapters["2Period"]) > 0
    /\ analysisResult[1].ClockTime = analysisResult[2].ClockTime
    /\ analysisResult[2].ClockTime < analysisResult[3].ClockTime
    /\ analysisResult[1].Period # analysisResult[2].Period

\* C7 (padding arithmetic): every returned group has Duration equal to
\* EndTime - StartTime, and StartTime >= 0.
C7_PaddingArithmetic ==
    pc = "detected" =>
        \A i \in 1..Len(clipGroups) :
            /\ clipGroups[i].Duration = clipGroups[i].EndTime - clipGroups[i].StartTime
            /\ clipGroups[i].StartTime >= 0

C7_Witness ==
    /\ pc = "detected"
    /\ \E i \in 1..Len(clipGroups) :
          /\ clipGroups[i].PrimaryChapter.VideoTime < secBefore
          /\ clipGroups[i].StartTime = 0
          /\ clipGroups[i].Duration > secBefore + secAfter

\* C8 (group shape): every returned group has at least one chapter, its
\* chapters are in non-decreasing video time, and its PrimaryChapter is its
\* first chapter.
C8_GroupShape ==
    pc = "detected" =>
        \A i \in 1..Len(clipGroups) :
            /\ Len(clipGroups[i].Chapters) >= 1
            /\ \A k \in 1..(Len(clipGroups[i].Chapters) - 1) :
                 clipGroups[i].Chapters[k].VideoTime
                    <= clipGroups[i].Chapters[k + 1].VideoTime
            /\ clipGroups[i].PrimaryChapter = clipGroups[i].Chapters[1]

C8_Witness ==
    /\ pc = "detected"
    /\ \E i \in 1..Len(clipGroups) :
          /\ Len(clipGroups[i].Chapters) = 3
          /\ clipGroups[i].Chapters[1].VideoTime < clipGroups[i].Chapters[3].VideoTime
          /\ toExtract[1].VideoTime > toExtract[2].VideoTime

\* C9 (output order): the returned groups, of all periods together, are in
\* ascending order of PrimaryChapter.GlobalOrder.
C9_OutputOrder ==
    pc = "detected" =>
        \A i \in 1..(Len(clipGroups) - 1) :
            clipGroups[i].PrimaryChapter.GlobalOrder
               <= clipGroups[i + 1].PrimaryChapter.GlobalOrder

C9_Witness ==
    /\ pc = "detected"
    /\ Len(clipGroups) = 3
    /\ clipGroups[1].Period # clipGroups[2].Period
    /\ clipGroups[1].PrimaryChapter.GlobalOrder < clipGroups[3].PrimaryChapter.GlobalOrder
    /\ toExtract[1].GlobalOrder > toExtract[3].GlobalOrder

\* C10 (determinism): a second run of the detector on the same chapters with
\* the same paddings - in the same order, in another order, or on the
\* members of the first result - returns the same groups in the same order.
C10_Determinism ==
    pc = "rerun" => rerunGroups = clipGroups

\* C11 (deterministic tie-break): two runs of MergeAndSortChapters on the
\* same map give every chapter the same GlobalOrder, chapters of equal
\* ClockTime included.
C11_TieBreakDeterminism ==
    pc = "remerged" => ret = analysisResult

\* The chapters and the timecode the mapper was called on.
MapChapters == args[1]
MapTimecode == args[2]

\* C12 (clock-time mapping): for a valid timecode the mapper returns the
\* chapters in the same order with only ClockTime set, to the anchor plus
\* the chapter's offset, and a second call with the same two arguments
\* returns the same list.
C12_ClockTimeMapping ==
    (pc = "mappedAgain" /\ ~ret[3].err) =>
        /\ Len(ret[3].chapters) = Len(MapChapters)
        /\ \A i \in 1..Len(MapChapters) :
              ret[3].chapters[i] =
                  [MapChapters[i] EXCEPT
                      !.ClockTime = ret[1].time.Ms + MapChapters[i].StartMs]
        /\ ret[4] = ret[3]

\* The fields of a string of the form HH:MM:SS:FF, read off by position.
HoursOf(tc) == Atoi(SubSeq(tc, 1, 2))
MinutesOf(tc) == Atoi(SubSeq(tc, 4, 5))
SecondsOf(tc) == Atoi(SubSeq(tc, 7, 8))
FramesOf(tc) == Atoi(SubSeq(tc, 10, 11))

\* HH:MM:SS as milliseconds after midnight.
TimeOfDayMs(tc) == ((HoursOf(tc) * 60 + MinutesOf(tc)) * 60 + SecondsOf(tc)) * 1000

\* C17 (timecode conversion): for HH:MM:SS:FF and HH:MM:SS;FF alike,
\* ParseTimecodeToTime returns, without error, the time of day HH:MM:SS plus
\* floor(FF * 1000 / 60) milliseconds; "11:49:22:30" and "11:49:22;30" give
\* 11:49:22.500.
C17_TimecodeConversion ==
    (pc # "timecode" /\ MapTimecode \in WellFormedTimecodes) =>
        /\ ~ret[1].err
        /\ ~ret[1].time.IsZero
        /\ ret[1].time.Ms
              = TimeOfDayMs(MapTimecode) + (FramesOf(MapTimecode) * 1000) \div 60
        /\ (/\ HoursOf(MapTimecode) = 11
            /\ MinutesOf(MapTimecode) = 49
            /\ SecondsOf(MapTimecode) = 22
            /\ FramesOf(MapTimecode) = 30) => ret[1].time.Ms = 42562500

C17_Witness ==
    /\ pc = "parsed"
    /\ MapTimecode = <<"1", "1", ":", "4", "9", ":", "2", "2", ";", "3", "0">>
    /\ ret[1].time.Ms = 42562500

C19_FrameCarry ==
    (/\ pc \in {"mapped", "nextDay", "mappedAgain"}
     /\ MapTimecode \in WellFormedTimecodes
     /\ FramesOf(MapTimecode) >= 60) =>
        /\ ~ret[1].err /\ ~ret[2].err /\ ~ret[3].err
        /\ ret[1].time.Ms \div 1000 = TimeOfDayMs(MapTimecode) \div 1000 + 1
        /\ ret[1].time.Ms % 1000 = ((FramesOf(MapTimecode) - 60) * 1000) \div 60
        /\ FramesOf(MapTimecode) = 61 =>
              ret[1].time.Ms = TimeOfDayMs(MapTimecode) + 1016

C19_Witness ==
    /\ pc = "mapped"
    /\ MapTimecode = <<"1", "1", ":", "4", "9", ":", "2", "2", ":", "6", "1">>
    /\ ret[1].time.Ms = 42563016
    /\ Len(ret[3].chapters) = 1
    /\ ret[3].chapters[1].ClockTime = 42563016 + ret[3].chapters[1].StartMs

\* C13 (chapter data invariant): after ParseFFMetadata, after
\* MapChaptersToClockTime, after MergeAndSortChapters and after the result
\* was saved and loaded again, every chapter has VideoTime = StartMs
\* milliseconds.
C13_VideoTimeIsStartMs ==
    pc \in {"parsedFile", "mappedFile", "mergedFile", "loaded"} =>
        \A k \in 1..Len(ret) :
            \A i \in 1..Len(ret[k]) : ret[k][i].VideoTime = ret[k][i].StartMs

\* The file the parser was called on, and the chapters it returned.
FileOf == args[1]
Parsed == ret[1]

\* The line without the white space at its ends.
Strip(line) ==
    LET inked == {i \in 1..Len(line) : line[i] \notin {" ", "\t"}}
    IN  IF inked = {} THEN <<>>
        ELSE SubSeq(line, CHOOSE i \in inked : \A j \in inked : i <= j,
                          CHOOSE i \in inked : \A j \in inked : i >= j)

\* The text begins with START= and at least one digit.
IsStartLine(text) ==
    /\ Len(text) >= 7
    /\ text[1] = "S" /\ text[2] = "T" /\ text[3] = "A"
    /\ text[4] = "R" /\ text[5] = "T" /\ text[6] = "="
    /\ IsDigit(text[7])

\* The number written after START=.
OffsetOf(text) ==
    LET ends == {k \in 7..Len(text) : \A j \in 7..k : IsDigit(text[j])}
    IN  Atoi(SubSeq(text, 7, CHOOSE k \in ends : \A j \in ends : k >= j))

\* The chapter-start lines of a file, in file order, without the white
\* space at their ends.
ChapterLines(lines) ==
    LET starts == SelectSeq(lines, LAMBDA l : IsStartLine(Strip(l)))
    IN  [i \in 1..Len(starts) |-> Strip(starts[i])]

\* C14 (chapter numbering): ParseFFMetadata returns one chapter per
\* chapter-start line, in file order, numbered 1, 2, .., k as encountered;
\* START values that are out of order keep their place and their number.
C14_ChapterNumbering ==
    pc \in {"parsedFile", "mappedFile", "mergedFile", "loaded"} =>
        /\ Len(Parsed) = Len(ChapterLines(FileOf))
        /\ \A i \in 1..Len(Parsed) :
              /\ Parsed[i].Number = i
              /\ Parsed[i].StartMs = OffsetOf(ChapterLines(FileOf)[i])

C14_Witness ==
    /\ pc = "parsedFile"
    /\ Len(FileOf) = 3
    /\ Len(Parsed) = 2
    /\ Parsed[1].Number = 1 /\ Parsed[1].StartMs = 1500
    /\ Parsed[2].Number = 2 /\ Parsed[2].StartMs = 1000

\* C15 (chapter line recognition), as claimed: the chapters returned are
\* those of the lines that begin with START= and a digit, and of no other
\* line.
C15_LineRecognition ==
    pc \in {"parsedFile", "mappedFile", "mergedFile", "loaded"} =>
        LET starts == SelectSeq(FileOf, IsStartLine)
        IN  [i \in 1..Len(Parsed) |-> Parsed[i].StartMs]
               = [i \in 1..Len(starts) |-> OffsetOf(starts[i])]

\* C15 (chapter line recognition), amended: the chapters returned are those
\* of the lines that, once the white space at their ends is removed, begin
\* with START= and a digit, and of no other line; a line with anything
\* else before START= gives no chapter.
C15_LineRecognitionTrimmed ==
    pc \in {"parsedFile", "mappedFile", "mergedFile", "loaded"} =>
        [i \in 1..Len(Parsed) |-> Parsed[i].StartMs]
           = [i \in 1..Len(ChapterLines(FileOf)) |->
                 OffsetOf(ChapterLines(FileOf)[i])]

C15_Witness ==
    /\ pc = "parsedFile"
    /\ FileOf = << <<"x", "S", "T", "A", "R", "T", "=", "3", "0", "0", "0">>,
                   <<" ", "S", "T", "A", "R", "T", "=", "2", "0", "0", "0">>,
                   <<"S", "T", "A", "R", "T", "=">> >>
    /\ Len(Parsed) = 1
    /\ Parsed[1].StartMs = 2000

\* The line declares a time base of 1/D second.
IsTimebaseLine(text) ==
    /\ Len(text) >= 12
    /\ SubSeq(text, 1, 11)
          = <<"T", "I", "M", "E", "B", "A", "S", "E", "=", "1", "/">>
    /\ \A k \in 12..Len(text) : IsDigit(text[k])

DenominatorOf(text) == Atoi(SubSeq(text, 12, Len(text)))

\* C16 (TIMEBASE handling): the chapter of a START line that follows a
\* TIMEBASE=1/D line has the video time START / D seconds, that is
\* START / (D / 1000) milliseconds.
C16_TimebaseHandling ==
    pc \in {"parsedFile", "mappedFile", "mergedFile", "loaded"} =>
        \A i \in 2..Len(FileOf) :
            (IsStartLine(Strip(FileOf[i])) /\ IsTimebaseLine(FileOf[i - 1])) =>
                Parsed[Len(ChapterLines(SubSeq(FileOf, 1, i)))].VideoTime
                   = OffsetOf(Strip(FileOf[i]))
                        \div (DenominatorOf(FileOf[i - 1]) \div 1000)

\* C20 (chapter offset export): for every group, GetClipChapters returns
\* one marker per member, in member order, with OffsetMs the member's
\* VideoTime minus the group's StartTime in milliseconds, or 0 if that is
\* negative.
C20_ChapterOffsets ==
    pc = "exported" =>
        \A i \in 1..Len(clipGroups) :
            /\ Len(ret[i]) = Len(clipGroups[i].Chapters)
            /\ \A k \in 1..Len(ret[i]) :
                  /\ ret[i][k].Title.ch = clipGroups[i].Chapters[k].Number
                  /\ ret[i][k].OffsetMs
                        = maxFloat(0, clipGroups[i].Chapters[k].VideoTime
                                         - clipGroups[i].StartTime)

\* The step that fails for a period, "" if none: reading the metadata; for
\* a period with chapters, reading the timecode or mapping to clock time.
FailureOf(p) ==
    IF p.metaErr THEN "metadata"
    ELSE IF p.starts = <<>> THEN ""
    ELSE IF p.tcErr THEN "timecode"
    ELSE IF p.timecode \notin WellFormedTimecodes THEN "map"
    ELSE ""

\* C21 (error propagation in analysis): if a step fails for some period,
\* AnalyzePeriods returns no result and an error that names the first such
\* period and the step; no read or mapping is made twice and none is made
\* after the failure. If no step fails it returns a result and no error.
C21_ErrorPropagation ==
    pc = "analysisDone" =>
        LET failing == {i \in 1..Len(args) : FailureOf(args[i]) # ""}
            first == CHOOSE i \in failing : \A j \in failing : i <= j
        IN  /\ failing = {} => (ret.err = NoError /\ ~ret.isNil)
            /\ failing # {} =>
                  /\ ret.isNil /\ ret.chapters = <<>>
                  /\ ret.err = [stage |-> FailureOf(args[first]),
                                period |-> args[first].Name]
                  /\ ret.calls[Len(ret.calls)]
                        = <<FailureOf(args[first]), args[first].Name>>
            /\ \A a, b \in 1..Len(ret.calls) : ret.calls[a] = ret.calls[b] => a = b

C21_Witness ==
    /\ pc = "analysisDone"
    /\ FailureOf(args[1]) = ""
    /\ Len(args[1].starts) = 2
    /\ FailureOf(args[2]) = "timecode"
    /\ ret.isNil
    /\ ret.err = [stage |-> "timecode", period |-> "2Period"]
    /\ Len(ret.calls) = 5

\* C22 (one extraction job at a time): at most one extraction worker is
\* running and at most one encoder call for clip extraction is in flight.
C22_OneJobAtATime ==
    /\ Cardinality({w \in 1..Len(workers) : Running(w)}) <= 1
    /\ Cardinality({w \in 1..Len(workers) : workers[w].pc = "encoding"}) <= 1


\* The groups of a run, by position.
AllGroupsInOrder(me) == [k \in 1..Len(me.groups) |-> k]

\* Worker w ends its run in this step.
EndsRun(w) == workers[w].pc # "done" /\ workers'[w].pc = "done"

\* C27 (extraction run): when a run ends, every group has been attempted
\* once and in order, a.extractedClips holds the output files of the groups
\* of the run that succeeded, in order, and the run marks Step 2 complete
\* exactly if one of its groups succeeded.
C27_ExtractionRun ==
    [][\A w \in 1..Len(workers) :
          EndsRun(w) =>
             /\ workers[w].attempted = AllGroupsInOrder(workers[w])
             /\ extractedClips = workers[w].succeeded
             /\ workers'[w].marked <=> (workers[w].succeeded # <<>>)]_vars


\* C23 (cancellation): once CancelExport has been called during a
\* re-encoding combine or a full-game export, no encoder process of the
\* operation is running, none was created after the call, and when the
\* operation has ended its result is "cancelled".
C23_Cancellation ==
    exportOp.cancelled =>
       /\ \A e \in 1..Len(encoders) :
             /\ encoders[e].state # "running"
             /\ ~encoders[e].afterCancel
       /\ exportOp.pc = "done" => exportOp.result = "cancelled"


\* C30 (folder scans do not accumulate): when every scan that was started
\* has shown its results, detectedPeriods holds one entry for each MOV file
\* of the folder, and so does the period list Analyze builds from it.
C30_ScansDoNotAccumulate ==
    (scans # <<>> /\ \A w \in 1..Len(scans) : scans[w].pc = "done") =>
       /\ detectedPeriods = SortedByBaseName(folder)
       /\ appPeriods # <<>> => Len(appPeriods) = Cardinality(folder)


\* The chapters of the input files, each moved by the sum (ms) of the
\* durations of the files before its own, in file order.
RECURSIVE ChaptersAtExactOffsets(_, _)
ChaptersAtExactOffsets(files, i) ==
    IF i > Len(files) THEN <<>>
    ELSE [j \in 1..Len(files[i].Chapters) |->
             [StartMs |-> files[i].Chapters[j].StartMs + SumMs(DurationsBefore(files, i)),
              EndMs |-> files[i].Chapters[j].EndMs + SumMs(DurationsBefore(files, i))]]
         \o ChaptersAtExactOffsets(files, i + 1)

\* s can be had from t by leaving elements out.
RECURSIVE IsSubsequence(_, _)
IsSubsequence(s, t) ==
    IF s = <<>> THEN TRUE
    ELSE IF t = <<>> THEN FALSE
    ELSE IF s[1] = t[1] THEN IsSubsequence(Tail(s), Tail(t))
    ELSE IsSubsequence(s, Tail(t))

\* C24 (chapter offsets when concatenating): the chapter list ConcatClips,
\* CombineSplitGoPro or ExportFullGame writes holds every chapter of every
\* input file at its start and end plus the sum of the durations (ms) of
\* the files before it, in the order of the input files.
C24_ConcatChapterOffsets ==
    pc = "joined" =>
       IsSubsequence(ChaptersAtExactOffsets(args, 1), ret.allChapters)


\* C25 (single-chapter clips): for a group with exactly one chapter
\* GetClipChapters returns exactly one marker, and its OffsetMs is 0.
C25_SingleChapterAtClipStart ==
    pc = "exported" =>
       \A i \in 1..Len(clipGroups) :
          Len(clipGroups[i].Chapters) = 1 =>
             /\ Len(ret[i]) = 1
             /\ ret[i][1].OffsetMs = 0


\* C28 (well-formed embedded chapters): the chapter entries written for a
\* group have non-decreasing START values, START <= END in each entry, and
\* the END of the last entry is the duration of the clip in ms.
C28_WellFormedChapters ==
    pc = "written" =>
       \A i \in 1..Len(clipGroups) :
          /\ \A j \in 1..Len(ret[i]) :
                /\ ret[i][j].START <= ret[i][j].END
                /\ j > 1 => ret[i][j - 1].START <= ret[i][j].START
          /\ ret[i][Len(ret[i])].END = clipGroups[i].Duration

\* C29 (same window on re-extraction): for a single-chapter group, Step 3
\* asks the encoder for the start and the duration Step 2 asked for.
C29_SameWindowOnReExtraction ==
    pc = "reextracted" =>
       \A i \in 1..Len(clipGroups) :
          Len(clipGroups[i].Chapters) = 1 => ret[i] = Step2Request(clipGroups[i])


\* The number of pixels of a resolution.
Pixels(r) == r.Width * r.Height

\* C26 (target resolution when combining split files): when the inputs do
\* not all have the same resolution, the target is the resolution with the
\* most pixels among all input files.
C26_TargetIsLargest ==
    (/\ pc = "resolved"
     /\ ProbeError \notin Range(args)
     /\ Cardinality(Range(args)) > 1) =>
        /\ [Width |-> ret.targetWidth, Height |-> ret.targetHeight] \in Range(args)
        /\ \A r \in Range(args) : Pixels(r) <= ret.targetWidth * ret.targetHeight

====
